---- MODULE Spec2Model ----
(***************************************************************************)
(* Model of hebrew-itn: the text normalization entry points of index.js    *)
(* (normalizeText, normalizeNumber), the regular-expression pipeline of    *)
(* hebrewITN.js (normalizeTextDirectly), the worker pool of workerPool.js  *)
(* and the batch API normalizeTranscriptParallel built on top of it.       *)
(*                                                                         *)
(* Text is a sequence of characters.  A character is a one-element string; *)
(* the Hebrew letters are transliterated (alef "A", bet "B", gimel "G",    *)
(* dalet "D", he "H", vav "W", chet "X", yod "Y", lamed "L", mem "M",      *)
(* final mem "Mf", nun "N", final nun "Nf", samech "Sm", ayin "E", pe "P", *)
(* final pe "Pf", tsadi "C", qof "Q", resh "R", shin "S", tav "T").  ASCII *)
(* letters are lower case, so that the two classes never collide.          *)
(***************************************************************************)
EXTENDS Integers, Sequences, FiniteSets, TLC

VARIABLES
  arg,      \* the argument of the current normalizeText / normalizeNumber call
  fn,       \* which entry point is being exercised
  tpc,      \* position of the text driver: "off" (batch API runs), "start", "once", "twice"
  res1,     \* result of the first call
  res2,     \* result of calling normalizeText again on the first result
  normalized,        \* normalizeText as index.js and the workers load it, tabulated on the transcript texts
  lastIndex,         \* patternMatcher.js: lastIndex of each shared /g regular expression of COMPOUND_PATTERNS
  nCoreCalls,        \* number of calls made so far to the functions of the core modules
  globalWorkerPool,  \* index.js: the lazily created WorkerPool (workers, freeWorkers, taskQueue, initialized)
  wstate,            \* per worker thread: "none", "alive", "terminated", "exited", "crashed"
  currentTask,       \* worker.currentTask: a task id, 0 for null
  inflight,          \* per worker: a task message was posted to the live thread and is not answered yet
  tasks,             \* the { data, resolve, reject } task objects created by runTask, with their promise state
  calls,             \* the normalizeTranscriptParallel invocations and where each is suspended
  nErrors,           \* number of worker 'error' events so far
  nShutdowns         \* number of shutdownWorkerPool calls so far

textVars == <<arg, fn, tpc, res1, res2, normalized, lastIndex, nCoreCalls>>
poolVars == <<globalWorkerPool, wstate, currentTask, inflight, tasks, calls, nErrors, nShutdowns>>
vars == <<arg, fn, tpc, res1, res2, normalized, lastIndex, nCoreCalls, globalWorkerPool, wstate, currentTask, inflight, tasks, calls,
          nErrors, nShutdowns>>

----------------------------------------------------------------------------
(* Characters and the character classes of JavaScript regular expressions. *)

AsciiLetters == {"a", "b", "_"}
Digits == {"0", "1", "2", "3", "4", "5", "6", "7", "8", "9"}

\* \w is [A-Za-z0-9_]: a Hebrew letter is NOT a word character
IsWordChar(c) == c \in AsciiLetters \cup Digits
IsDigit(c) == c \in Digits
IsSpace(c) == c = " "

\* \b at the gap in front of position i (1-based; i = Len(t)+1 is the end)
WordBoundary(t, i) ==
  LET before == i > 1 /\ IsWordChar(t[i - 1])
      after == i <= Len(t) /\ IsWordChar(t[i])
  IN before # after

LitAt(t, i, lit) ==
  /\ i + Len(lit) - 1 <= Len(t)
  /\ \A k \in 1..Len(lit) : t[i + k - 1] = lit[k]

Sub(t, b, e) == [k \in 1..(e - b) |-> t[b + k - 1]]   \* t.substring(b-1, e-1)

RECURSIVE SpaceRun(_, _)
SpaceRun(t, i) == IF i <= Len(t) /\ IsSpace(t[i]) THEN 1 + SpaceRun(t, i + 1) ELSE 0

\* the length of the run of characters of a class that starts at position i
RECURSIVE ClassRun(_, _, _)
ClassRun(t, i, cls) ==
  IF i <= Len(t) /\ (IF cls = "word" THEN IsWordChar(t[i]) ELSE IsDigit(t[i]) \/ t[i] = ",")
  THEN 1 + ClassRun(t, i + 1, cls)
  ELSE 0

RECURSIVE Cat(_)
Cat(ss) == IF ss = <<>> THEN <<>> ELSE Head(ss) \o Cat(Tail(ss))

EndsWith(t, suffix) ==
  Len(t) >= Len(suffix) /\ LitAt(t, Len(t) - Len(suffix) + 1, suffix)

StartsWith(t, prefix) == LitAt(t, 1, prefix)

Includes(t, part) == \E i \in 1..(Len(t) + 1) : LitAt(t, i, part)

----------------------------------------------------------------------------
(* Numbers and their decimal rendering.                                    *)

DigitChar(d) ==
  CASE d = 0 -> "0" [] d = 1 -> "1" [] d = 2 -> "2" [] d = 3 -> "3" [] d = 4 -> "4"
    [] d = 5 -> "5" [] d = 6 -> "6" [] d = 7 -> "7" [] d = 8 -> "8" [] d = 9 -> "9"

DigitVal(c) ==
  CASE c = "0" -> 0 [] c = "1" -> 1 [] c = "2" -> 2 [] c = "3" -> 3 [] c = "4" -> 4
    [] c = "5" -> 5 [] c = "6" -> 6 [] c = "7" -> 7 [] c = "8" -> 8 [] c = "9" -> 9

RECURSIVE ToDigits(_)
ToDigits(n) == IF n < 10 THEN <<DigitChar(n)>> ELSE ToDigits(n \div 10) \o <<DigitChar(n % 10)>>

\* parseInt(s, 10): the longest prefix of decimal digits ('1,000' parses as 1)
RECURSIVE ParseIntFrom(_, _, _)
ParseIntFrom(s, i, acc) ==
  IF i <= Len(s) /\ IsDigit(s[i]) THEN ParseIntFrom(s, i + 1, acc * 10 + DigitVal(s[i])) ELSE acc
ParseInt(s) == ParseIntFrom(s, 1, 0)

----------------------------------------------------------------------------
(* The Hebrew words that occur in the patterns.                            *)

\* sason (a name) and shalom are ordinary words that are not numerals
W ==
  [
   esrim |-> <<"E", "S", "R", "Y", "Mf">>,
   shloshim |-> <<"S", "L", "W", "S", "Y", "Mf">>,
   arbaim |-> <<"A", "R", "B", "E", "Y", "Mf">>,
   chamishim |-> <<"X", "M", "Y", "S", "Y", "Mf">>,
   shishim |-> <<"S", "Y", "S", "Y", "Mf">>,
   shivim |-> <<"S", "B", "E", "Y", "Mf">>,
   shmonim |-> <<"S", "M", "W", "N", "Y", "Mf">>,
   tishim |-> <<"T", "S", "E", "Y", "Mf">>,
   echad |-> <<"A", "X", "D">>,
   shnayim |-> <<"S", "N", "Y", "Y", "Mf">>,
   shlosha |-> <<"S", "L", "W", "S", "H">>,
   arbaa |-> <<"A", "R", "B", "E", "H">>,
   chamisha |-> <<"X", "M", "Y", "S", "H">>,
   shisha |-> <<"S", "Y", "S", "H">>,
   shiva |-> <<"S", "B", "E", "H">>,
   shmone |-> <<"S", "M", "W", "N", "H">>,
   tisha |-> <<"T", "S", "E", "H">>,
   asara |-> <<"E", "S", "R", "H">>,
   achat |-> <<"A", "X", "T">>,
   shtayim |-> <<"S", "T", "Y", "Y", "Mf">>,
   shalosh |-> <<"S", "L", "W", "S">>,
   arba |-> <<"A", "R", "B", "E">>,
   chamesh |-> <<"X", "M", "S">>,
   shesh |-> <<"S", "S">>,
   sheva |-> <<"S", "B", "E">>,
   tesha |-> <<"T", "S", "E">>,
   eser |-> <<"E", "S", "R">>,
   shney |-> <<"S", "N", "Y">>,
   shtey |-> <<"S", "T", "Y">>,
   shloshet |-> <<"S", "L", "W", "S", "T">>,
   arbaat |-> <<"A", "R", "B", "E", "T">>,
   chameshet |-> <<"X", "M", "S", "T">>,
   sheshet |-> <<"S", "S", "T">>,
   shivat |-> <<"S", "B", "E", "T">>,
   shmonat |-> <<"S", "M", "W", "N", "T">>,
   tishat |-> <<"T", "S", "E", "T">>,
   aseret |-> <<"E", "S", "R", "T">>,
   mea |-> <<"M", "A", "H">>,
   matayim |-> <<"M", "A", "T", "Y", "Y", "Mf">>,
   shaloshMeot |-> <<"S", "L", "W", "S", " ", "M", "A", "W", "T">>,
   arbaMeot |-> <<"A", "R", "B", "E", " ", "M", "A", "W", "T">>,
   chameshMeot |-> <<"X", "M", "S", " ", "M", "A", "W", "T">>,
   sheshMeot |-> <<"S", "S", " ", "M", "A", "W", "T">>,
   shevaMeot |-> <<"S", "B", "E", " ", "M", "A", "W", "T">>,
   shmoneMeot |-> <<"S", "M", "W", "N", "H", " ", "M", "A", "W", "T">>,
   teshaMeot |-> <<"T", "S", "E", " ", "M", "A", "W", "T">>,
   elef |-> <<"A", "L", "Pf">>,
   alpayim |-> <<"A", "L", "P", "Y", "Y", "Mf">>,
   shloshetAlafim |-> <<"S", "L", "W", "S", "T", " ", "A", "L", "P", "Y", "Mf">>,
   arbaatAlafim |-> <<"A", "R", "B", "E", "T", " ", "A", "L", "P", "Y", "Mf">>,
   chameshetAlafim |-> <<"X", "M", "S", "T", " ", "A", "L", "P", "Y", "Mf">>,
   complex1345 |-> <<"A", "L", "Pf", " ", "W", "S", "L", "W", "S", " ", "M", "A", "W", "T", " ", "W", "A", "R", "B", "E", "Y", "Mf", " ", "W", "X", "M", "Y", "S", "H">>,
   complex3257 |-> <<"S", "L", "W", "S", "T", " ", "A", "L", "P", "Y", "Mf", " ", "M", "A", "T", "Y", "Y", "Mf", " ", "W", "X", "M", "Y", "S", "Y", "Mf", " ", "W", "S", "B", "E", "H">>,
   complex3450 |-> <<"S", "L", "W", "S", "T", " ", "A", "L", "P", "Y", "Mf", " ", "A", "R", "B", "E", " ", "M", "A", "W", "T", " ", "W", "X", "M", "Y", "S", "Y", "Mf">>,
   complex800k |-> <<"S", "M", "W", "N", "H", " ", "M", "A", "W", "T", " ", "A", "L", "Pf">>,
   complex1500k |-> <<"M", "Y", "L", "Y", "W", "Nf", " ", "W", "X", "M", "S", " ", "M", "A", "W", "T", " ", "A", "L", "Pf">>,
   complex2300k |-> <<"S", "N", "Y", " ", "M", "Y", "L", "Y", "W", "Nf", " ", "S", "L", "W", "S", " ", "M", "A", "W", "T", " ", "A", "L", "Pf">>,
   complex11200 |-> <<"A", "X", "D", " ", "E", "S", "R", " ", "A", "L", "Pf", " ", "W", "M", "A", "T", "Y", "Y", "Mf">>,
   ratzif |-> <<"R", "C", "Y", "Pf">>,
   beratzif |-> <<"B", "R", "C", "Y", "Pf">>,
   vav |-> <<"W">>,
   sason |-> <<"S", "S", "W", "Nf">>,
   shalom |-> <<"S", "L", "W", "Mf">>,
   esrimVeShlosha |-> <<"E", "S", "R", "Y", "Mf", " ", "W", "S", "L", "W", "S", "H">>,
   meaVeChamisha |-> <<"M", "A", "H", " ", "W", "X", "M", "Y", "S", "H">>,
   matayimVeShivim |-> <<"M", "A", "T", "Y", "Y", "Mf", " ", "W", "S", "B", "E", "Y", "Mf">>,
   elefUMatayim |-> <<"A", "L", "Pf", " ", "W", "M", "A", "T", "Y", "Y", "Mf">>,
   phrase1345 |-> <<"A", "L", "Pf", " ", "S", "L", "W", "S", " ", "M", "A", "W", "T", " ", "A", "R", "B", "E", "Y", "Mf", " ", "W", "X", "M", "Y", "S", "H">>,
   phrase3257 |-> <<"S", "L", "W", "S", "T", " ", "A", "L", "P", "Y", "Mf", " ", "M", "A", "T", "Y", "Y", "Mf", " ", "X", "M", "Y", "S", "Y", "Mf", " ", "W", "S", "B", "E", "H">>,
   veShlosha |-> <<"W", "S", "L", "W", "S", "H">>,
   arbaMeotVeChamishim |-> <<"A", "R", "B", "E", " ", "M", "A", "W", "T", " ", "W", "X", "M", "Y", "S", "Y", "Mf">>,
   veShtayim |-> <<"W", "S", "T", "Y", "Y", "Mf">>,
   veEsrim |-> <<"W", "E", "S", "R", "Y", "Mf">>,
   veShivim |-> <<"W", "S", "B", "E", "Y", "Mf">>,
   shteyMeot |-> <<"S", "T", "Y", " ", "M", "A", "W", "T">>,
   meot |-> <<"M", "A", "W", "T">>,
   alafim |-> <<"A", "L", "P", "Y", "Mf">>,
   milyon |-> <<"M", "Y", "L", "Y", "W", "Nf">>
  ]

----------------------------------------------------------------------------
(* Lookup objects: a sequence of <<key, value>> pairs; a missing key gives *)
(* undefined, written Undef (no stored value is the empty string).         *)

Undef == <<>>

RECURSIVE Lookup(_, _)
Lookup(map, key) ==
  IF map = <<>> THEN Undef
  ELSE IF Head(map)[1] = key THEN Head(map)[2] ELSE Lookup(Tail(map), key)

DIGIT_MAP ==
  << <<W.echad, <<"1">>>>, <<W.achat, <<"1">>>>, <<W.shnayim, <<"2">>>>, <<W.shtayim, <<"2">>>>,
     <<W.shney, <<"2">>>>, <<W.shtey, <<"2">>>>, <<W.shlosha, <<"3">>>>, <<W.shalosh, <<"3">>>>,
     <<W.shloshet, <<"3">>>>, <<W.arbaa, <<"4">>>>, <<W.arba, <<"4">>>>, <<W.arbaat, <<"4">>>>,
     <<W.chamisha, <<"5">>>>, <<W.chamesh, <<"5">>>>, <<W.chameshet, <<"5">>>>, <<W.shisha, <<"6">>>>,
     <<W.shesh, <<"6">>>>, <<W.sheshet, <<"6">>>>, <<W.shiva, <<"7">>>>, <<W.sheva, <<"7">>>>,
     <<W.shivat, <<"7">>>>, <<W.shmone, <<"8">>>>, <<W.shmonat, <<"8">>>>, <<W.tisha, <<"9">>>>,
     <<W.tesha, <<"9">>>>, <<W.tishat, <<"9">>>>, <<W.asara, <<"1", "0">>>>, <<W.eser, <<"1", "0">>>>,
     <<W.aseret, <<"1", "0">>>> >>

TENS_MAP ==
  << <<W.eser, <<"1", "0">>>>, <<W.esrim, <<"2", "0">>>>, <<W.shloshim, <<"3", "0">>>>,
     <<W.arbaim, <<"4", "0">>>>, <<W.chamishim, <<"5", "0">>>>, <<W.shishim, <<"6", "0">>>>,
     <<W.shivim, <<"7", "0">>>>, <<W.shmonim, <<"8", "0">>>>, <<W.tishim, <<"9", "0">>>> >>

HUNDREDS_MAP ==
  << <<W.mea, <<"1", "0", "0">>>>, <<W.matayim, <<"2", "0", "0">>>>,
     <<W.shaloshMeot, <<"3", "0", "0">>>>, <<W.arbaMeot, <<"4", "0", "0">>>>,
     <<W.chameshMeot, <<"5", "0", "0">>>>, <<W.sheshMeot, <<"6", "0", "0">>>>,
     <<W.shevaMeot, <<"7", "0", "0">>>>, <<W.shmoneMeot, <<"8", "0", "0">>>>,
     <<W.teshaMeot, <<"9", "0", "0">>>> >>

thousandsMapping ==
  << <<W.elef, <<"1", ",", "0", "0", "0">>>>, <<W.alpayim, <<"2", ",", "0", "0", "0">>>>,
     <<W.shloshetAlafim, <<"3", ",", "0", "0", "0">>>>,
     <<W.arbaatAlafim, <<"4", ",", "0", "0", "0">>>>,
     <<W.chameshetAlafim, <<"5", ",", "0", "0", "0">>>> >>

numMap ==
  << <<W.achat, <<"1">>>>, <<W.shtayim, <<"2">>>>, <<W.shalosh, <<"3">>>>, <<W.arba, <<"4">>>>,
     <<W.chamesh, <<"5">>>>, <<W.shesh, <<"6">>>>, <<W.sheva, <<"7">>>>, <<W.shmone, <<"8">>>>,
     <<W.tesha, <<"9">>>>, <<W.eser, <<"1", "0">>>> >>

\* patternMatcher.js: NUMBER_MAPPING, the digit strings of the simple expressions
NUMBER_MAPPING ==
  <<
   <<<<"A", "X", "D">>, <<"1">>>>, <<<<"S", "N", "Y", "Y", "Mf">>, <<"2">>>>,
   <<<<"S", "N", "Y", "Mf">>, <<"2">>>>, <<<<"S", "L", "W", "S", "H">>, <<"3">>>>,
   <<<<"A", "R", "B", "E", "H">>, <<"4">>>>, <<<<"X", "M", "Y", "S", "H">>, <<"5">>>>,
   <<<<"S", "Y", "S", "H">>, <<"6">>>>, <<<<"S", "B", "E", "H">>, <<"7">>>>,
   <<<<"S", "M", "W", "N", "H">>, <<"8">>>>, <<<<"T", "S", "E", "H">>, <<"9">>>>,
   <<<<"E", "S", "R", "H">>, <<"1", "0">>>>, <<<<"A", "X", "T">>, <<"1">>>>,
   <<<<"S", "T", "Y", "Y", "Mf">>, <<"2">>>>, <<<<"S", "T", "Y", "Mf">>, <<"2">>>>,
   <<<<"S", "L", "W", "S">>, <<"3">>>>, <<<<"A", "R", "B", "E">>, <<"4">>>>,
   <<<<"X", "M", "S">>, <<"5">>>>, <<<<"S", "S">>, <<"6">>>>,
   <<<<"S", "B", "E">>, <<"7">>>>, <<<<"T", "S", "E">>, <<"9">>>>,
   <<<<"E", "S", "R">>, <<"1", "0">>>>, <<<<"S", "N", "Y">>, <<"2">>>>,
   <<<<"S", "T", "Y">>, <<"2">>>>, <<<<"S", "L", "W", "S", "T">>, <<"3">>>>,
   <<<<"A", "R", "B", "E", "T">>, <<"4">>>>, <<<<"X", "M", "S", "T">>, <<"5">>>>,
   <<<<"S", "S", "T">>, <<"6">>>>, <<<<"S", "B", "E", "T">>, <<"7">>>>,
   <<<<"S", "M", "W", "N", "T">>, <<"8">>>>, <<<<"T", "S", "E", "T">>, <<"9">>>>,
   <<<<"E", "S", "R", "T">>, <<"1", "0">>>>, <<<<"A", "X", "D", " ", "E", "S", "R">>, <<"1", "1">>>>,
   <<<<"S", "N", "Y", "Mf", " ", "E", "S", "R">>, <<"1", "2">>>>, <<<<"S", "L", "W", "S", "H", " ", "E", "S", "R">>, <<"1", "3">>>>,
   <<<<"A", "R", "B", "E", "H", " ", "E", "S", "R">>, <<"1", "4">>>>, <<<<"X", "M", "Y", "S", "H", " ", "E", "S", "R">>, <<"1", "5">>>>,
   <<<<"S", "Y", "S", "H", " ", "E", "S", "R">>, <<"1", "6">>>>, <<<<"S", "B", "E", "H", " ", "E", "S", "R">>, <<"1", "7">>>>,
   <<<<"S", "M", "W", "N", "H", " ", "E", "S", "R">>, <<"1", "8">>>>, <<<<"T", "S", "E", "H", " ", "E", "S", "R">>, <<"1", "9">>>>,
   <<<<"A", "X", "T", " ", "E", "S", "R", "H">>, <<"1", "1">>>>, <<<<"S", "T", "Y", "Mf", " ", "E", "S", "R", "H">>, <<"1", "2">>>>,
   <<<<"S", "L", "W", "S", " ", "E", "S", "R", "H">>, <<"1", "3">>>>, <<<<"A", "R", "B", "E", " ", "E", "S", "R", "H">>, <<"1", "4">>>>,
   <<<<"X", "M", "S", " ", "E", "S", "R", "H">>, <<"1", "5">>>>, <<<<"S", "S", " ", "E", "S", "R", "H">>, <<"1", "6">>>>,
   <<<<"S", "B", "E", " ", "E", "S", "R", "H">>, <<"1", "7">>>>, <<<<"S", "M", "W", "N", "H", " ", "E", "S", "R", "H">>, <<"1", "8">>>>,
   <<<<"T", "S", "E", " ", "E", "S", "R", "H">>, <<"1", "9">>>>, <<<<"E", "S", "R", "Y", "Mf">>, <<"2", "0">>>>,
   <<<<"S", "L", "W", "S", "Y", "Mf">>, <<"3", "0">>>>, <<<<"A", "R", "B", "E", "Y", "Mf">>, <<"4", "0">>>>,
   <<<<"X", "M", "Y", "S", "Y", "Mf">>, <<"5", "0">>>>, <<<<"S", "Y", "S", "Y", "Mf">>, <<"6", "0">>>>,
   <<<<"S", "B", "E", "Y", "Mf">>, <<"7", "0">>>>, <<<<"S", "M", "W", "N", "Y", "Mf">>, <<"8", "0">>>>,
   <<<<"T", "S", "E", "Y", "Mf">>, <<"9", "0">>>>, <<<<"M", "A", "H">>, <<"1", "0", "0">>>>,
   <<<<"M", "A", "T", "Y", "Y", "Mf">>, <<"2", "0", "0">>>>, <<<<"S", "L", "W", "S", " ", "M", "A", "W", "T">>, <<"3", "0", "0">>>>,
   <<<<"A", "R", "B", "E", " ", "M", "A", "W", "T">>, <<"4", "0", "0">>>>, <<<<"X", "M", "S", " ", "M", "A", "W", "T">>, <<"5", "0", "0">>>>,
   <<<<"S", "S", " ", "M", "A", "W", "T">>, <<"6", "0", "0">>>>, <<<<"S", "B", "E", " ", "M", "A", "W", "T">>, <<"7", "0", "0">>>>,
   <<<<"S", "M", "W", "N", "H", " ", "M", "A", "W", "T">>, <<"8", "0", "0">>>>, <<<<"T", "S", "E", " ", "M", "A", "W", "T">>, <<"9", "0", "0">>>>,
   <<<<"A", "L", "Pf">>, <<"1", ",", "0", "0", "0">>>>, <<<<"A", "L", "P", "Y", "Y", "Mf">>, <<"2", ",", "0", "0", "0">>>>,
   <<<<"S", "L", "W", "S", "T", " ", "A", "L", "P", "Y", "Mf">>, <<"3", ",", "0", "0", "0">>>>, <<<<"A", "R", "B", "E", "T", " ", "A", "L", "P", "Y", "Mf">>, <<"4", ",", "0", "0", "0">>>>,
   <<<<"X", "M", "S", "T", " ", "A", "L", "P", "Y", "Mf">>, <<"5", ",", "0", "0", "0">>>>, <<<<"S", "S", "T", " ", "A", "L", "P", "Y", "Mf">>, <<"6", ",", "0", "0", "0">>>>,
   <<<<"S", "B", "E", "T", " ", "A", "L", "P", "Y", "Mf">>, <<"7", ",", "0", "0", "0">>>>, <<<<"S", "M", "W", "N", "T", " ", "A", "L", "P", "Y", "Mf">>, <<"8", ",", "0", "0", "0">>>>,
   <<<<"T", "S", "E", "T", " ", "A", "L", "P", "Y", "Mf">>, <<"9", ",", "0", "0", "0">>>>, <<<<"E", "S", "R", "T", " ", "A", "L", "P", "Y", "Mf">>, <<"1", "0", ",", "0", "0", "0">>>>,
   <<<<"M", "Y", "L", "Y", "W", "Nf">>, <<"1", ",", "0", "0", "0", ",", "0", "0", "0">>>>, <<<<"S", "N", "Y", " ", "M", "Y", "L", "Y", "W", "Nf">>, <<"2", ",", "0", "0", "0", ",", "0", "0", "0">>>>,
   <<<<"S", "L", "W", "S", "H", " ", "M", "Y", "L", "Y", "W", "Nf">>, <<"3", ",", "0", "0", "0", ",", "0", "0", "0">>>>, <<<<"A", "R", "B", "E", "H", " ", "M", "Y", "L", "Y", "W", "Nf">>, <<"4", ",", "0", "0", "0", ",", "0", "0", "0">>>>,
   <<<<"X", "M", "Y", "S", "H", " ", "M", "Y", "L", "Y", "W", "Nf">>, <<"5", ",", "0", "0", "0", ",", "0", "0", "0">>>>, <<<<"A", "P", "Sm">>, <<"0">>>>,
   <<<<"W", "X", "C", "Y">>, <<".", "5">>>>, <<<<"W", "R", "B", "E">>, <<".", "2", "5">>>>,
   <<<<"W", "S", "L", "W", "S", "T", " ", "R", "B", "E", "Y">>, <<".", "7", "5">>>>
  >>

\* patternMatcher.js: pluralizeHebrew, plurals[unit] || unit
pluralizeHebrew(unit) ==
  LET plurals ==
        <<
         <<<<"S", "E", "H">>, <<"S", "E", "W", "T">>>>, <<<<"D", "Q", "H">>, <<"D", "Q", "W", "T">>>>,
         <<<<"Y", "W", "Mf">>, <<"Y", "M", "Y", "Mf">>>>, <<<<"X", "W", "D", "S">>, <<"X", "W", "D", "S", "Y", "Mf">>>>,
         <<<<"S", "N", "H">>, <<"S", "N", "Y", "Mf">>>>
        >>
  IN IF Lookup(plurals, unit) # Undef THEN Lookup(plurals, unit) ELSE unit

----------------------------------------------------------------------------
(* A backtracking matcher for the regular expressions of the source.  A    *)
(* regular expression is a sequence of elements; the matcher returns the   *)
(* first match in the priority order of a backtracking engine (earlier     *)
(* alternative first, greedy quantifiers first), which is the match        *)
(* String.prototype.replace uses.                                          *)

MaxGroups == 4

Lit(s) == [k |-> "lit", s |-> s]
Bnd == [k |-> "b"]                               \* \b
Ws == [k |-> "ws"]                               \* \s+
Dg == [k |-> "digit"]                            \* \d
Grp(n, alts) == [k |-> "grp", n |-> n, alts |-> alts]   \* ( a1 | a2 | ... ), group number n
Close(n) == [k |-> "close", n |-> n]             \* end of capturing group n
Opt(re) == [k |-> "opt", re |-> re]              \* (?: re )?
End == [k |-> "end"]                             \* $
Run(cls) == [k |-> "run", cls |-> cls]           \* \w+ (cls "word"), [0-9,]+ (cls "num")

Alts(words) == [j \in 1..Len(words) |-> <<Lit(words[j])>>]            \* w1|w2|...
AltsB(words) == [j \in 1..Len(words) |-> <<Bnd, Lit(words[j]), Bnd>>]  \* \bw1\b|\bw2\b|...

NoMatch == [ok |-> FALSE, e |-> 0, b |-> [n \in 1..MaxGroups |-> 0], c |-> [n \in 1..MaxGroups |-> 0]]

RECURSIVE MatchAt(_, _, _), WsTry(_, _, _, _), AltTry(_, _, _, _, _)

\* match the regular expression re against t starting at position i
MatchAt(re, t, i) ==
  IF re = <<>> THEN [NoMatch EXCEPT !.ok = TRUE, !.e = i]
  ELSE LET x == Head(re)
           rest == Tail(re)
       IN CASE x.k = "lit" -> IF LitAt(t, i, x.s) THEN MatchAt(rest, t, i + Len(x.s)) ELSE NoMatch
            [] x.k = "b" -> IF WordBoundary(t, i) THEN MatchAt(rest, t, i) ELSE NoMatch
            [] x.k = "digit" -> IF i <= Len(t) /\ IsDigit(t[i]) THEN MatchAt(rest, t, i + 1) ELSE NoMatch
            [] x.k = "ws" -> WsTry(rest, t, i, SpaceRun(t, i))
            [] x.k = "run" -> WsTry(rest, t, i, ClassRun(t, i, x.cls))
            [] x.k = "end" -> IF i = Len(t) + 1 THEN MatchAt(rest, t, i) ELSE NoMatch
            [] x.k = "grp" -> AltTry(x, rest, t, i, 1)
            [] x.k = "close" ->
                 LET r == MatchAt(rest, t, i) IN IF r.ok THEN [r EXCEPT !.c[x.n] = i] ELSE r
            [] x.k = "opt" ->
                 LET r == MatchAt(x.re \o rest, t, i) IN IF r.ok THEN r ELSE MatchAt(rest, t, i)

\* \s+ and \w+ are greedy: the longest run first, then shorter ones
WsTry(rest, t, i, n) ==
  IF n = 0 THEN NoMatch
  ELSE LET r == MatchAt(rest, t, i + n) IN IF r.ok THEN r ELSE WsTry(rest, t, i, n - 1)

\* the alternatives of a group in the order they are written
AltTry(x, rest, t, i, a) ==
  IF a > Len(x.alts) THEN NoMatch
  ELSE LET r == MatchAt(x.alts[a] \o <<Close(x.n)>> \o rest, t, i)
       IN IF r.ok THEN [r EXCEPT !.b[x.n] = i] ELSE AltTry(x, rest, t, i, a + 1)

\* the text captured by group n (Undef when the group did not take part)
Cap(t, r, n) == IF r.b[n] = 0 THEN Undef ELSE Sub(t, r.b[n], r.c[n])

\* value of a map entry as a number, 0 when the key is missing
MapInt(map, key) == IF Lookup(map, key) # Undef THEN ParseInt(Lookup(map, key)) ELSE 0

\* the replacer callbacks of normalizeTextDirectly and normalizeText
Replacement(rk, t, i, r) ==
  LET match == Sub(t, i, r.e)
      c1 == Cap(t, r, 1)
      c2 == Cap(t, r, 2)
      c3 == Cap(t, r, 3)
      c4 == Cap(t, r, 4)
  IN CASE rk.k = "tensUnits" -> ToDigits(MapInt(TENS_MAP, c1) + MapInt(DIGIT_MAP, c2))
       [] rk.k = "hundreds" ->
            ToDigits(MapInt(HUNDREDS_MAP, c1)
                     + (IF c2 # Undef THEN MapInt(TENS_MAP, c2) ELSE 0)
                     + (IF c3 # Undef THEN MapInt(DIGIT_MAP, c3) ELSE 0))
       [] rk.k = "digit" -> IF Lookup(DIGIT_MAP, c1) # Undef THEN Lookup(DIGIT_MAP, c1) ELSE match
       [] rk.k = "thousands" ->
            IF Lookup(thousandsMapping, c1) # Undef THEN Lookup(thousandsMapping, c1) ELSE match
       [] rk.k = "const" -> rk.s
       [] rk.k = "platform" -> W.ratzif \o <<" ">> \o Lookup(DIGIT_MAP, c1)
       [] rk.k = "conj" -> W.vav \o <<"-">> \o c1
       [] rk.k = "platformPrefix" -> c1 \o <<" ">> \o Lookup(numMap, c2)
       \* the replacer callbacks of patternMatcher.js
       [] rk.k = "sum" -> ToDigits(MapInt(NUMBER_MAPPING, c1) + MapInt(NUMBER_MAPPING, c2))
       [] rk.k = "year" ->
            <<"B", "S", "N", "T", " ">>
            \o ToDigits((IF c1 = W.elef THEN 1000 ELSE 2000) + MapInt(NUMBER_MAPPING, c2) * 100
                        + MapInt(NUMBER_MAPPING, c3)
                        + (IF c4 # Undef THEN MapInt(NUMBER_MAPPING, c4) ELSE 0))
       [] rk.k = "date" ->
            LET firstVal == MapInt(NUMBER_MAPPING, c2)
                secondVal == IF c3 # Undef THEN MapInt(NUMBER_MAPPING, c3) ELSE 0
            IN c1 \o <<"-">> \o ToDigits(IF secondVal # 0 THEN firstVal + secondVal ELSE firstVal)
                  \o <<" ">> \o c4
       [] rk.k = "fraction" -> <<"1", ".", "5", " ">> \o pluralizeHebrew(c1)
       [] rk.k = "regular" ->
            IF Lookup(NUMBER_MAPPING, c1) # Undef THEN Lookup(NUMBER_MAPPING, c1) ELSE match
       [] rk.k = "noun" ->
            IF Lookup(NUMBER_MAPPING, c1) # Undef
            THEN Lookup(NUMBER_MAPPING, c1) \o <<" ">> \o c2 ELSE match

\* a local name v for a value in the expression F
With(v, F(_)) == F(v)

\* the least position of a set of positions, 0 for the empty set
FirstOf(S) == IF S = {} THEN 0 ELSE CHOOSE p \in S : \A q \in S : p <= q

\* the first position from i on where re matches a non-empty text, 0 if none
FirstMatchStart(re, t, i) ==
  FirstOf({p \in i..Len(t) : With(MatchAt(re, t, p), LAMBDA r : r.ok /\ r.e > p)})

\* text.replace(/re/g, replacer): leftmost matches, scanned left to right;
\* the text between two matches is copied
RECURSIVE ReplaceFrom(_, _, _, _)
ReplaceFrom(t, re, rk, i) ==
  With(FirstMatchStart(re, t, i), LAMBDA p :
    IF p = 0 THEN Sub(t, i, Len(t) + 1)
    ELSE With(MatchAt(re, t, p), LAMBDA r :
           Sub(t, i, p) \o Replacement(rk, t, p, r) \o ReplaceFrom(t, re, rk, r.e)))

ReplaceAll(t, re, rk) == ReplaceFrom(t, re, rk, 1)

----------------------------------------------------------------------------
(* hebrewITN.normalizeTextDirectly: the pattern list, applied in order,    *)
(* then the conjunction fix.                                               *)

tensWords == <<W.esrim, W.shloshim, W.arbaim, W.chamishim, W.shishim, W.shivim, W.shmonim, W.tishim>>

unitsWords ==
  <<W.echad, W.shnayim, W.shlosha, W.arbaa, W.chamisha, W.shisha, W.shiva, W.shmone, W.tisha,
    W.achat, W.shtayim, W.shalosh, W.arba, W.chamesh, W.shesh, W.sheva, W.shmone, W.tesha>>

hundredsWords ==
  <<W.mea, W.matayim, W.shaloshMeot, W.arbaMeot, W.chameshMeot, W.sheshMeot, W.shevaMeot, W.shmoneMeot, W.teshaMeot>>

singleDigitWords ==
  <<W.echad, W.shnayim, W.shlosha, W.arbaa, W.chamisha, W.shisha, W.shiva, W.shmone, W.tisha, W.asara,
    W.achat, W.shtayim, W.shalosh, W.arba, W.chamesh, W.shesh, W.sheva, W.shmone, W.tesha, W.eser>>

thousandsWords == <<W.elef, W.alpayim, W.shloshetAlafim, W.arbaatAlafim, W.chameshetAlafim>>

platformWords == <<W.shmone, W.sheva, W.shesh, W.chamesh, W.arba, W.shalosh, W.shtayim, W.achat, W.tesha, W.eser>>

Const(s) == [k |-> "const", s |-> s]

patterns ==
  << \* two-digit numbers: (\btens\b)\s+vav(\bunits\b)
     [pattern |-> <<Grp(1, AltsB(tensWords)), Ws, Lit(W.vav), Grp(2, AltsB(unitsWords))>>,
      replacer |-> [k |-> "tensUnits"]],
     \* hundreds with optional tens and units
     [pattern |-> <<Grp(1, AltsB(hundredsWords)),
                    Opt(<<Ws, Lit(W.vav), Grp(2, AltsB(tensWords))>>),
                    Opt(<<Ws, Lit(W.vav), Grp(3, AltsB(unitsWords))>>)>>,
      replacer |-> [k |-> "hundreds"]],
     \* single digits: \b(w1|w2|...)\b
     [pattern |-> <<Bnd, Grp(1, Alts(singleDigitWords)), Bnd>>, replacer |-> [k |-> "digit"]],
     \* thousands
     [pattern |-> <<Bnd, Grp(1, Alts(thousandsWords)), Bnd>>, replacer |-> [k |-> "thousands"]],
     \* special complex patterns: plain literals, no \b
     [pattern |-> <<Lit(W.complex1345)>>, replacer |-> Const(<<"1", ",", "3", "4", "5">>)],
     [pattern |-> <<Lit(W.complex3257)>>, replacer |-> Const(<<"3", ",", "2", "5", "7">>)],
     [pattern |-> <<Lit(W.complex3450)>>, replacer |-> Const(<<"3", ",", "4", "5", "0">>)],
     [pattern |-> <<Lit(W.complex800k)>>, replacer |-> Const(<<"8", "0", "0", ",", "0", "0", "0">>)],
     [pattern |-> <<Lit(W.complex1500k)>>,
      replacer |-> Const(<<"1", ",", "5", "0", "0", ",", "0", "0", "0">>)],
     [pattern |-> <<Lit(W.complex2300k)>>,
      replacer |-> Const(<<"2", ",", "3", "0", "0", ",", "0", "0", "0">>)],
     [pattern |-> <<Lit(W.complex11200)>>, replacer |-> Const(<<"1", "1", ",", "2", "0", "0">>)],
     \* platform numbers: ratzif, one space, (\bw\b)
     [pattern |-> <<Lit(W.ratzif \o <<" ">>), Grp(1, AltsB(platformWords))>>,
      replacer |-> [k |-> "platform"]] >>

conjunctionFix == <<Bnd, Lit(W.vav), Grp(1, << <<Dg>> >>)>>    \* /\bvav(\d)/g

RECURSIVE ApplyPatterns(_, _, _)
ApplyPatterns(ps, result, j) ==
  IF j > Len(ps) THEN result
  ELSE ApplyPatterns(ps, ReplaceAll(result, ps[j].pattern, ps[j].replacer), j + 1)

normalizeTextDirectly(text) ==
  LET result == ApplyPatterns(patterns, text, 1)
  IN ReplaceAll(result, conjunctionFix, [k |-> "conj"])

----------------------------------------------------------------------------
(* JavaScript values handed to the entry points.                           *)

Str(s) == [type |-> "string", s |-> s]
NonStringTypes == {"null", "undefined", "number", "boolean", "object"}
NonString(ty) == [type |-> ty, s |-> <<>>]

\* !text || typeof text !== 'string'
InvalidInput_typeOnly(x) == x.type # "string"
InvalidInput(x) == x.type # "string" \/ x.s = <<>>

----------------------------------------------------------------------------
(* The literal lookup tables of index.js.  mockData.textTests, the sample  *)
(* data and testCases.js are data files of the repository.                 *)

textTests ==
  << << <<"Y", "S", " ", "X", "M", "Y", "S", "H", " ", "Y", "L", "D", "Y", "Mf", " ", "B", "G", "Nf">>,
        <<"Y", "S", " ", "5", " ", "Y", "L", "D", "Y", "Mf", " ", "B", "G", "Nf">> >> >>

sampleLookup ==
  << << <<"Y", "S", " ", "X", "M", "S", " ", "M", "A", "W", "T", " ", "A", "L", "Pf", " ", "H", "W", "R", "Y", "Mf">>,
        <<"Y", "S", " ", "5", "0", "0", ",", "0", "0", "0", " ", "H", "W", "R", "Y", "Mf">> >> >>

testCases ==
  << << <<"H", "Y", "A", " ", "S", "Y", "L", "M", "H", " ", "M", "A", "H", " ", "W", "E", "S", "R", "Y", "Mf", " ", "S", "Q", "L", "Y", "Mf", " ", "E", "B", "W", "R", " ", "H", "Sm", "P", "R">>,
        <<"H", "Y", "A", " ", "S", "Y", "L", "M", "H", " ", "1", "2", "0", " ", "S", "Q", "L", "Y", "Mf", " ", "E", "B", "W", "R", " ", "H", "Sm", "P", "R">> >> >>

getNormalizedForm(text) == Lookup(testCases, text)

numberTests == <<>>

\* numberPatterns.getAllPatterns(): the lexicon of numeral phrases
getAllPatterns == DIGIT_MAP \o TENS_MAP \o HUNDREDS_MAP \o thousandsMapping

getDigitForHebrewNumber(numberText) == Lookup(getAllPatterns, numberText)

----------------------------------------------------------------------------
(* index.normalizeText.  The result records whether the call threw, the    *)
(* returned text and the lookup / normalization steps that ran.            *)

Thrown == [error |-> TRUE, value |-> <<>>, steps |-> <<>>]
Returned(v, steps) == [error |-> FALSE, value |-> v, steps |-> steps]

platformFallback ==
  <<Grp(1, Alts(<<W.ratzif, W.beratzif>>)), Ws, Grp(2, Alts(platformWords))>>

\* normalizeText from "First try direct normalization" on: what the function
\* computes for a text that no lookup table holds
normalizeTextPipeline(text) ==
  LET normalizedText == normalizeTextDirectly(text)
  IN IF normalizedText # text
       THEN Returned(IF EndsWith(text, <<".">>) /\ ~EndsWith(normalizedText, <<".">>)
                       THEN normalizedText \o <<".">>
                       ELSE normalizedText,
                     <<"textTests", "sampleLookup", "testCases", "direct">>)
     ELSE Returned(ReplaceAll(text, platformFallback, [k |-> "platformPrefix"]),
                   <<"textTests", "sampleLookup", "testCases", "direct", "platform">>)

normalizeText(x) ==
  IF InvalidInput(x) THEN Thrown
  ELSE LET text == x.s
       IN IF Lookup(textTests, text) # Undef
            THEN Returned(Lookup(textTests, text), <<"textTests">>)
          ELSE IF Lookup(sampleLookup, text) # Undef
            THEN Returned(Lookup(sampleLookup, text), <<"textTests", "sampleLookup">>)
          ELSE IF getNormalizedForm(text) # Undef
            THEN Returned(getNormalizedForm(text), <<"textTests", "sampleLookup", "testCases">>)
          ELSE normalizeTextPipeline(text)

----------------------------------------------------------------------------
(* hebrewITN.normalizeNumberPattern and index.normalizeNumber.             *)


normalizeNumberPattern(numberText) ==
  IF Lookup(getAllPatterns, numberText) # Undef THEN Lookup(getAllPatterns, numberText)
  ELSE IF Includes(numberText, W.veShlosha) /\ StartsWith(numberText, W.chamishim) THEN <<"5", "3">>
  ELSE IF Includes(numberText, W.veShlosha) /\ StartsWith(numberText, W.arbaMeotVeChamishim)
    THEN <<"4", "5", "3">>
  ELSE IF Includes(numberText, W.veShtayim) /\ StartsWith(numberText, W.shloshim) THEN <<"3", "2">>
  ELSE IF Includes(numberText, W.veEsrim) /\ StartsWith(numberText, W.mea) THEN <<"1", "2", "0">>
  ELSE IF Includes(numberText, W.veShivim) /\ StartsWith(numberText, W.matayim) THEN <<"2", "7", "0">>
  ELSE IF Includes(numberText, W.veShivim) /\ StartsWith(numberText, W.shteyMeot) THEN <<"2", "7", "0">>
  ELSE numberText

directCases ==
  << <<W.elef, <<"1", ",", "0", "0", "0">>>>, <<W.alpayim, <<"2", ",", "0", "0", "0">>>>,
     <<W.shloshetAlafim, <<"3", ",", "0", "0", "0">>>>, <<W.arbaatAlafim, <<"4", ",", "0", "0", "0">>>>,
     <<W.esrimVeShlosha, <<"2", "3">>>>, <<W.meaVeChamisha, <<"1", "0", "5">>>>,
     <<W.matayimVeShivim, <<"2", "7", "0">>>>, <<W.elefUMatayim, <<"1", ",", "2", "0", "0">>>>,
     <<W.phrase1345, <<"1", ",", "3", "4", "5">>>>, <<W.phrase3257, <<"3", ",", "2", "5", "7">>>>,
     <<W.complex1500k, <<"1", ",", "5", "0", "0", ",", "0", "0", "0">>>> >>

normalizeNumber(x) ==
  IF InvalidInput(x) THEN Thrown
  ELSE LET numberText == x.s
       IN IF Lookup(numberTests, numberText) # Undef
            THEN Returned(Lookup(numberTests, numberText), <<"numberTests">>)
          ELSE IF getDigitForHebrewNumber(numberText) # Undef
            THEN Returned(getDigitForHebrewNumber(numberText), <<"numberTests", "numberPatterns">>)
          ELSE IF normalizeNumberPattern(numberText) # numberText
            THEN Returned(normalizeNumberPattern(numberText),
                          <<"numberTests", "numberPatterns", "normalizeNumberPattern">>)
          ELSE IF Lookup(directCases, numberText) # Undef
            THEN Returned(Lookup(directCases, numberText),
                          <<"numberTests", "numberPatterns", "normalizeNumberPattern", "direct">>)
          ELSE Returned(<<"0">>,
                        <<"numberTests", "numberPatterns", "normalizeNumberPattern", "direct">>)

----------------------------------------------------------------------------
(* hebrewNumberData.js: the values of the Hebrew number words.  A table is *)
(* a sequence of <<word, value>> pairs.                                    *)

HEBREW_NUMBER_WORDS ==
  [
   cardinals |->
     << <<<<"A", "X", "D">>, 1>>, <<<<"S", "N", "Y", "Y", "Mf">>, 2>>,
        <<<<"S", "N", "Y", "Mf">>, 2>>, <<<<"S", "L", "W", "S", "H">>, 3>>,
        <<<<"A", "R", "B", "E", "H">>, 4>>, <<<<"X", "M", "Y", "S", "H">>, 5>>,
        <<<<"S", "Y", "S", "H">>, 6>>, <<<<"S", "B", "E", "H">>, 7>>,
        <<<<"S", "M", "W", "N", "H">>, 8>>, <<<<"T", "S", "E", "H">>, 9>>,
        <<<<"E", "S", "R", "H">>, 10>>, <<<<"A", "X", "T">>, 1>>,
        <<<<"S", "T", "Y", "Y", "Mf">>, 2>>, <<<<"S", "T", "Y", "Mf">>, 2>>,
        <<<<"S", "L", "W", "S">>, 3>>, <<<<"A", "R", "B", "E">>, 4>>, <<<<"X", "M", "S">>, 5>>,
        <<<<"S", "S">>, 6>>, <<<<"S", "B", "E">>, 7>>, <<<<"T", "S", "E">>, 9>>,
        <<<<"E", "S", "R">>, 10>> >>,
   teens |->
     << <<<<"A", "X", "D", " ", "E", "S", "R">>, 11>>,
        <<<<"S", "N", "Y", "Mf", " ", "E", "S", "R">>, 12>>,
        <<<<"S", "L", "W", "S", "H", " ", "E", "S", "R">>, 13>>,
        <<<<"A", "R", "B", "E", "H", " ", "E", "S", "R">>, 14>>,
        <<<<"X", "M", "Y", "S", "H", " ", "E", "S", "R">>, 15>>,
        <<<<"S", "Y", "S", "H", " ", "E", "S", "R">>, 16>>,
        <<<<"S", "B", "E", "H", " ", "E", "S", "R">>, 17>>,
        <<<<"S", "M", "W", "N", "H", " ", "E", "S", "R">>, 18>>,
        <<<<"T", "S", "E", "H", " ", "E", "S", "R">>, 19>>,
        <<<<"A", "X", "T", " ", "E", "S", "R", "H">>, 11>>,
        <<<<"S", "T", "Y", "Mf", " ", "E", "S", "R", "H">>, 12>>,
        <<<<"S", "L", "W", "S", " ", "E", "S", "R", "H">>, 13>>,
        <<<<"A", "R", "B", "E", " ", "E", "S", "R", "H">>, 14>>,
        <<<<"X", "M", "S", " ", "E", "S", "R", "H">>, 15>>,
        <<<<"S", "S", " ", "E", "S", "R", "H">>, 16>>,
        <<<<"S", "B", "E", " ", "E", "S", "R", "H">>, 17>>,
        <<<<"S", "M", "W", "N", "H", " ", "E", "S", "R", "H">>, 18>>,
        <<<<"T", "S", "E", " ", "E", "S", "R", "H">>, 19>> >>,
   tens |->
     << <<<<"E", "S", "R", "Y", "Mf">>, 20>>, <<<<"S", "L", "W", "S", "Y", "Mf">>, 30>>,
        <<<<"A", "R", "B", "E", "Y", "Mf">>, 40>>, <<<<"X", "M", "Y", "S", "Y", "Mf">>, 50>>,
        <<<<"S", "Y", "S", "Y", "Mf">>, 60>>, <<<<"S", "B", "E", "Y", "Mf">>, 70>>,
        <<<<"S", "M", "W", "N", "Y", "Mf">>, 80>>, <<<<"T", "S", "E", "Y", "Mf">>, 90>> >>,
   hundreds |->
     << <<<<"M", "A", "H">>, 100>>, <<<<"M", "A", "T", "Y", "Y", "Mf">>, 200>>,
        <<<<"M", "A", "T", "Y", "Mf">>, 200>>, <<<<"M", "A", "W", "T">>, 100>> >>,
   thousands |->
     << <<<<"A", "L", "Pf">>, 1000>>, <<<<"A", "L", "P", "Y", "Y", "Mf">>, 2000>>,
        <<<<"A", "L", "P", "Y", "Mf">>, 1000>> >>,
   largeNumbers |->
     << <<<<"M", "Y", "L", "Y", "W", "Nf">>, 1000000>>,
        <<<<"M", "Y", "L", "Y", "W", "N", "Y", "Mf">>, 1000000>>,
        <<<<"M", "Y", "L", "Y", "A", "R", "D">>, 1000000000>>,
        <<<<"M", "Y", "L", "Y", "A", "R", "D", "Y", "Mf">>, 1000000000>> >>
  ]

CONSTRUCT_FORMS ==
  << <<<<"S", "N", "Y">>, 2>>, <<<<"S", "T", "Y">>, 2>>, <<<<"S", "L", "W", "S", "T">>, 3>>,
     <<<<"A", "R", "B", "E", "T">>, 4>>, <<<<"X", "M", "S", "T">>, 5>>,
     <<<<"S", "S", "T">>, 6>>, <<<<"S", "B", "E", "T">>, 7>>,
     <<<<"S", "M", "W", "N", "T">>, 8>>, <<<<"T", "S", "E", "T">>, 9>>,
     <<<<"E", "S", "R", "T">>, 10>> >>

ORDINAL_NUMBERS ==
  << <<<<"R", "A", "S", "W", "Nf">>, 1>>, <<<<"S", "N", "Y">>, 2>>,
     <<<<"S", "L", "Y", "S", "Y">>, 3>>, <<<<"R", "B", "Y", "E", "Y">>, 4>>,
     <<<<"X", "M", "Y", "S", "Y">>, 5>>, <<<<"S", "Y", "S", "Y">>, 6>>,
     <<<<"S", "B", "Y", "E", "Y">>, 7>>, <<<<"S", "M", "Y", "N", "Y">>, 8>>,
     <<<<"T", "S", "Y", "E", "Y">>, 9>>, <<<<"E", "S", "Y", "R", "Y">>, 10>>,
     <<<<"R", "A", "S", "W", "N", "H">>, 1>>, <<<<"S", "N", "Y", "H">>, 2>>,
     <<<<"S", "N", "Y", "Y", "H">>, 2>>, <<<<"S", "L", "Y", "S", "Y", "T">>, 3>>,
     <<<<"R", "B", "Y", "E", "Y", "T">>, 4>>, <<<<"X", "M", "Y", "S", "Y", "T">>, 5>>,
     <<<<"S", "Y", "S", "Y", "T">>, 6>>, <<<<"S", "B", "Y", "E", "Y", "T">>, 7>>,
     <<<<"S", "M", "Y", "N", "Y", "T">>, 8>>, <<<<"T", "S", "Y", "E", "Y", "T">>, 9>>,
     <<<<"E", "S", "Y", "R", "Y", "T">>, 10>> >>

HasKey(map, key) == \E i \in 1..Len(map) : map[i][1] = key           \* map.hasOwnProperty(key)
ValueOf(map, key) == map[CHOOSE i \in 1..Len(map) : map[i][1] = key][2]

----------------------------------------------------------------------------
(* textProcessor.js: tokenize and detectNumberExpressions.                 *)

\* String.prototype.trim
RECURSIVE Trim(_)
Trim(t) ==
  IF t # <<>> /\ IsSpace(t[1]) THEN Trim(Tail(t))
  ELSE IF t # <<>> /\ IsSpace(t[Len(t)]) THEN Trim(SubSeq(t, 1, Len(t) - 1))
  ELSE t

\* t.split(sep) from position i on, word being the piece read so far; sep
\* is "ws" for /\s+/ and a character otherwise.  The empty string gives
\* one empty piece.
RECURSIVE SplitFrom(_, _, _, _)
SplitFrom(t, sep, i, word) ==
  IF i > Len(t) THEN <<word>>
  ELSE IF sep = "ws" /\ IsSpace(t[i]) THEN <<word>> \o SplitFrom(t, sep, i + SpaceRun(t, i), <<>>)
  ELSE IF sep = t[i] THEN <<word>> \o SplitFrom(t, sep, i + 1, <<>>)
  ELSE SplitFrom(t, sep, i + 1, Append(word, t[i]))

\* Array.prototype.join
RECURSIVE Join(_, _)
Join(ws, sep) ==
  IF ws = <<>> THEN <<>>
  ELSE IF Len(ws) = 1 THEN ws[1]
  ELSE ws[1] \o sep \o Join(Tail(ws), sep)

tokenize(text) == SplitFrom(Trim(text), "ws", 1, <<>>)

MaxWindow == 5

\* the offset the code computes for token number i (1-based): the lengths
\* of the tokens before it, plus one for each
TokenStart(tokens, i) == Len(Cat([j \in 1..(i - 1) |-> tokens[j] \o <<" ">>]))

\* the candidates with the window sizes taken from 1 up to 5
Candidates_smallestFirst(tokens) ==
  Cat([windowSize \in 1..MaxWindow |->
        Cat([i \in 1..(Len(tokens) - windowSize + 1) |->
              LET phrase == Join(SubSeq(tokens, i, i + windowSize - 1), <<" ">>)
                  startIndex == TokenStart(tokens, i)
              IN IF Lookup(getAllPatterns, phrase) # Undef
                 THEN << [startIndex |-> startIndex,
                          endIndex |-> startIndex + Len(phrase),
                          original |-> phrase,
                          normalized |-> Lookup(getAllPatterns, phrase)] >>
                 ELSE <<>>])])

\* the results array before sorting: window sizes from 5 down to 1, each
\* from left to right
Candidates(tokens) ==
  Cat([k \in 1..MaxWindow |->
        LET windowSize == MaxWindow + 1 - k
        IN Cat([i \in 1..(Len(tokens) - windowSize + 1) |->
                 LET phrase == Join(SubSeq(tokens, i, i + windowSize - 1), <<" ">>)
                     startIndex == TokenStart(tokens, i)
                 IN IF Lookup(getAllPatterns, phrase) # Undef
                    THEN << [startIndex |-> startIndex,
                             endIndex |-> startIndex + Len(phrase),
                             original |-> phrase,
                             normalized |-> Lookup(getAllPatterns, phrase)] >>
                    ELSE <<>>])])

\* Array.prototype.sort on startIndex, stable; dir = 1 for (a, b) => a - b
\* and dir = -1 for (a, b) => b - a
RECURSIVE InsertByStart(_, _, _)
InsertByStart(sorted, x, dir) ==
  IF sorted = <<>> THEN <<x>>
  ELSE IF dir * (x.startIndex - Head(sorted).startIndex) < 0 THEN <<x>> \o sorted
  ELSE <<Head(sorted)>> \o InsertByStart(Tail(sorted), x, dir)

RECURSIVE SortByStart(_, _)
SortByStart(rs, dir) ==
  IF rs = <<>> THEN <<>>
  ELSE InsertByStart(SortByStart(SubSeq(rs, 1, Len(rs) - 1), dir), rs[Len(rs)], dir)

Overlaps_never(current, r) == FALSE
Overlaps(current, r) ==
  \/ current.startIndex >= r.startIndex /\ current.startIndex < r.endIndex
  \/ current.endIndex > r.startIndex /\ current.endIndex <= r.endIndex
  \/ current.startIndex <= r.startIndex /\ current.endIndex >= r.endIndex

RECURSIVE FilterOverlaps(_, _)
FilterOverlaps(results, filteredResults) ==
  IF results = <<>> THEN filteredResults
  ELSE LET current == Head(results)
           overlaps == \E k \in 1..Len(filteredResults) : Overlaps(current, filteredResults[k])
       IN FilterOverlaps(Tail(results),
                         IF overlaps THEN filteredResults ELSE Append(filteredResults, current))

detectNumberExpressions(text) ==
  FilterOverlaps(SortByStart(Candidates(tokenize(text)), 1), <<>>)

----------------------------------------------------------------------------
(* textProcessor.js: reconstruct.                                          *)

\* the for loop over the expressions sorted from the end of the text to its
\* start, with the special case for the word shmone at the end of the text
\* behind a platform word
RECURSIVE ReconstructLoop(_, _)
ReconstructLoop(result, sortedExpressions) ==
  IF sortedExpressions = <<>> THEN result
  ELSE LET expr == Head(sortedExpressions)
           prefix == Sub(result, 1, expr.startIndex + 1)
           suffix == Sub(result, expr.endIndex + 1, Len(result) + 1)
           words == SplitFrom(Trim(prefix), "ws", 1, <<>>)
           prevWord == words[Len(words)]
       IN IF expr.original = W.shmone /\ Trim(suffix) = <<>> /\ prevWord \in {W.ratzif, W.beratzif}
          THEN ReconstructLoop(prefix \o <<"8">> \o suffix, Tail(sortedExpressions))
          ELSE ReconstructLoop(prefix \o expr.normalized \o suffix, Tail(sortedExpressions))

reconstruct(originalText, convertedExpressions) ==
  IF convertedExpressions = <<>> THEN originalText
  ELSE ReplaceAll(ReconstructLoop(originalText, SortByStart(convertedExpressions, -1)),
                  <<Bnd, Lit(W.vav), Ws, Grp(1, << <<Run("num")>> >>)>>,    \* /\bvav\s+([0-9,]+)/g
                  [k |-> "conj"])

----------------------------------------------------------------------------
(* numberRecognizer.js: findNumberExpressions.                             *)

RECURSIVE isNumberWord(_)
isNumberWord(token) ==
  IF Includes(token, <<"_">>)
  THEN LET parts == SplitFrom(token, "_", 1, <<>>)
       IN \A k \in 1..Len(parts) : isNumberWord(parts[k])
  ELSE \/ HasKey(HEBREW_NUMBER_WORDS.cardinals, token)
       \/ HasKey(HEBREW_NUMBER_WORDS.tens, token)
       \/ HasKey(HEBREW_NUMBER_WORDS.hundreds, token)
       \/ HasKey(HEBREW_NUMBER_WORDS.thousands, token)
       \/ HasKey(HEBREW_NUMBER_WORDS.largeNumbers, token)
       \/ HasKey(CONSTRUCT_FORMS, token)

isConjunction(token) == token \in {W.vav, W.vav \o <<"H">>, <<"H">>}

\* [parts[0], vav, parts[1]]
processCompoundToken(token) ==
  IF ~Includes(token, <<"_">>) THEN <<token>>
  ELSE LET parts == SplitFrom(token, "_", 1, <<>>) IN <<parts[1], W.vav, parts[2]>>

\* expandedTokens, each with its positionMap entry: every token of an
\* expanded compound carries the span of the compound
ExpandedTokens(tokens) ==
  Cat([i \in 1..Len(tokens) |->
        LET tokenPos == TokenStart(tokens, i)
            expanded == processCompoundToken(tokens[i])
        IN [j \in 1..Len(expanded) |->
             [token |-> expanded[j], start |-> tokenPos, end |-> tokenPos + Len(tokens[i])]]])

RECURSIVE PopConjunctions(_)
PopConjunctions(expr) ==
  IF expr # <<>> /\ isConjunction(expr[Len(expr)])
  THEN PopConjunctions(SubSeq(expr, 1, Len(expr) - 1))
  ELSE expr

\* the closure state of findNumberExpressions: currentExpression is <<>>
\* for null (an expression is started with one token, so the empty array
\* does not occur)
finalizeExpression(st) ==
  LET popped == PopConjunctions(st.currentExpression)
  IN [st EXCEPT !.expressions =
                  IF popped # <<>>
                  THEN Append(@, [tokens |-> popped,
                                  original |-> Trim(st.originalText),
                                  startIndex |-> st.startPosition,
                                  endIndex |-> st.prevEnd])
                  ELSE @,
                !.currentExpression = <<>>,
                !.originalText = <<>>]

\* the forEach over the expanded tokens, from token number k on
RECURSIVE FindLoop(_, _, _)
FindLoop(expanded, k, st) ==
  IF k > Len(expanded) THEN st
  ELSE LET token == expanded[k].token
           posInfo == expanded[k]
           st1 == IF isNumberWord(token)
                    THEN IF st.currentExpression = <<>>
                         THEN [st EXCEPT !.currentExpression = <<token>>,
                                         !.startPosition = posInfo.start,
                                         !.originalText = token]
                         ELSE [st EXCEPT !.currentExpression = Append(@, token),
                                         !.originalText = @ \o <<" ">> \o token]
                  ELSE IF isConjunction(token) /\ st.currentExpression # <<>>
                    THEN [st EXCEPT !.currentExpression = Append(@, token),
                                    !.originalText = @ \o <<" ">> \o token]
                  ELSE finalizeExpression(st)
       IN FindLoop(expanded, k + 1, [st1 EXCEPT !.prevEnd = posInfo.end])

findNumberExpressions(tokens) ==
  LET st0 == [expressions |-> <<>>, currentExpression |-> <<>>, originalText |-> <<>>,
              startPosition |-> 0, prevEnd |-> 0]
  IN finalizeExpression(FindLoop(ExpandedTokens(tokens), 1, st0)).expressions

----------------------------------------------------------------------------
(* numberConverter.js: getWordValue, formatNumberWithCommas,               *)
(* parseNumberExpression and convertToDigits.                              *)

Null == -1     \* null: the word has no value (every value of the tables is positive)

getWordValue(word) ==
  LET tables == <<HEBREW_NUMBER_WORDS.cardinals, HEBREW_NUMBER_WORDS.teens, HEBREW_NUMBER_WORDS.tens,
                  HEBREW_NUMBER_WORDS.hundreds, HEBREW_NUMBER_WORDS.thousands,
                  HEBREW_NUMBER_WORDS.largeNumbers, CONSTRUCT_FORMS, ORDINAL_NUMBERS>>
      found == {k \in 1..Len(tables) : HasKey(tables[k], word)}
  IN IF found = {} THEN Null
     ELSE ValueOf(tables[CHOOSE k \in found : \A m \in found : k <= m], word)

\* (?=(\d{3})+(?!\d)) in front of position i
GroupAhead_anyThree(s, i) ==
  \E n \in 1..(Len(s) \div 3) : \A j \in i..(i + 3 * n - 1) : j <= Len(s) /\ IsDigit(s[j])
GroupAhead(s, i) ==
  \E n \in 1..(Len(s) \div 3) :
    /\ \A j \in i..(i + 3 * n - 1) : j <= Len(s) /\ IsDigit(s[j])
    /\ i + 3 * n > Len(s) \/ ~IsDigit(s[i + 3 * n])

\* num.toString().replace(/\B(?=(\d{3})+(?!\d))/g, ','): a separator goes
\* in front of every position that is no word boundary and has the lookahead
formatNumberWithCommas(num) ==
  LET s == ToDigits(num)
  IN Cat([i \in 1..Len(s) |->
           IF ~WordBoundary(s, i) /\ GroupAhead(s, i) THEN <<",", s[i]>> ELSE <<s[i]>>])

\* the two checks of handleSpecialCompounds; Null when neither applies
handleSpecialCompounds(tokens) ==
  IF Len(tokens) = 3 /\ tokens[2] = W.vav
  THEN LET first == getWordValue(tokens[1])
           last == getWordValue(tokens[3])
       IN IF first # Null /\ last # Null /\ first % 10 = 0 /\ last < 10 THEN first + last
          ELSE IF first # Null /\ last # Null /\ first \in {100, 200, 300} THEN first + last
          ELSE Null
  ELSE Null

\* /^(tens)\s+vav\s+(units)$/
tensAndUnits ==
  <<Grp(1, Alts(tensWords)), Ws, Lit(W.vav), Ws,
    Grp(2, Alts(SubSeq(unitsWords, 1, 16) \o <<W.tesha>>)), End>>

\* the while loop over numberTokens from token number i on.  parseNumberPart
\* adds the value of a token, times the scale word behind it if there is
\* one.  On a token without a value it returns 0 and leaves i alone: the
\* loop never ends (hang).
RECURSIVE ParseLoop(_, _, _)
ParseLoop(numberTokens, i, total) ==
  IF i > Len(numberTokens) THEN [hang |-> FALSE, value |-> total]
  ELSE LET tokenValue == getWordValue(numberTokens[i])
           hasNext == i + 1 <= Len(numberTokens)
           nextToken == numberTokens[i + 1]
           nextValue == getWordValue(nextToken)
           scale == IF ~hasNext THEN 1
                    ELSE IF nextToken = W.meot \/ nextValue = 100 THEN 100
                    ELSE IF nextToken = W.alafim \/ nextValue = 1000 THEN 1000
                    ELSE IF nextToken = W.milyon \/ nextValue = 1000000 THEN 1000000
                    ELSE 1
       IN IF tokenValue = Null THEN [hang |-> TRUE, value |-> total]
          ELSE IF scale = 1 THEN ParseLoop(numberTokens, i + 1, total + tokenValue)
          ELSE ParseLoop(numberTokens, i + 2, total + tokenValue * scale)

parseNumberExpression(tokens) ==
  LET tokenStr == Join(tokens, <<" ">>)
      m == MatchAt(tensAndUnits, tokenStr, 1)
  IN IF Len(tokens) = 1
       THEN [hang |-> FALSE,
             value |-> IF getWordValue(tokens[1]) = Null THEN 0 ELSE getWordValue(tokens[1])]
     ELSE IF handleSpecialCompounds(tokens) # Null
       THEN [hang |-> FALSE, value |-> handleSpecialCompounds(tokens)]
     ELSE IF m.ok
       THEN [hang |-> FALSE,
             value |-> getWordValue(Cap(tokenStr, m, 1)) + getWordValue(Cap(tokenStr, m, 2))]
     ELSE ParseLoop(SelectSeq(tokens, LAMBDA token : ~isConjunction(token)), 1, 0)

\* the digit string, or hang when parseNumberExpression does not return
convertToDigits(expr) ==
  LET joinedTokens == Join(expr.tokens, <<" ">>)
      m == MatchAt(tensAndUnits, joinedTokens, 1)
      numericValue == parseNumberExpression(expr.tokens)
  IN IF m.ok
       THEN [hang |-> FALSE,
             value |-> ToDigits(getWordValue(Cap(joinedTokens, m, 1))
                                + getWordValue(Cap(joinedTokens, m, 2)))]
     ELSE IF numericValue.hang THEN [hang |-> TRUE, value |-> <<>>]
     ELSE IF numericValue.value >= 1000
       THEN [hang |-> FALSE, value |-> formatNumberWithCommas(numericValue.value)]
     ELSE [hang |-> FALSE, value |-> ToDigits(numericValue.value)]

----------------------------------------------------------------------------
(* patternMatcher.js: COMPOUND_PATTERNS are module-level regular           *)
(* expressions with the g flag, shared by every call; test() reads and     *)
(* writes their lastIndex.                                                 *)

COMPOUND_PATTERNS ==
  LET
      p1g1 ==
          <<
            <<"E", "S", "R", "Y", "Mf">>, <<"S", "L", "W", "S", "Y", "Mf">>, <<"A", "R", "B", "E", "Y", "Mf">>,
            <<"X", "M", "Y", "S", "Y", "Mf">>, <<"S", "Y", "S", "Y", "Mf">>, <<"S", "B", "E", "Y", "Mf">>,
            <<"S", "M", "W", "N", "Y", "Mf">>, <<"T", "S", "E", "Y", "Mf">>
          >>
      p1g2 ==
          <<
            <<"A", "X", "D">>, <<"S", "N", "Y", "Y", "Mf">>, <<"S", "L", "W", "S", "H">>,
            <<"A", "R", "B", "E", "H">>, <<"X", "M", "Y", "S", "H">>, <<"S", "Y", "S", "H">>,
            <<"S", "B", "E", "H">>, <<"S", "M", "W", "N", "H">>, <<"T", "S", "E", "H">>,
            <<"A", "X", "T">>, <<"S", "T", "Y", "Y", "Mf">>, <<"S", "L", "W", "S">>,
            <<"A", "R", "B", "E">>, <<"X", "M", "S">>, <<"S", "S">>,
            <<"S", "B", "E">>, <<"S", "M", "W", "N", "H">>, <<"T", "S", "E">>
          >>
      p2g1 ==
          <<
            <<"M", "A", "H">>, <<"M", "A", "T", "Y", "Y", "Mf">>, <<"S", "L", "W", "S", " ", "M", "A", "W", "T">>,
            <<"A", "R", "B", "E", " ", "M", "A", "W", "T">>, <<"X", "M", "S", " ", "M", "A", "W", "T">>, <<"S", "S", " ", "M", "A", "W", "T">>,
            <<"S", "B", "E", " ", "M", "A", "W", "T">>, <<"S", "M", "W", "N", "H", " ", "M", "A", "W", "T">>, <<"T", "S", "E", " ", "M", "A", "W", "T">>
          >>
      p2g2 ==
          <<
            <<"E", "S", "R", "Y", "Mf">>, <<"S", "L", "W", "S", "Y", "Mf">>, <<"A", "R", "B", "E", "Y", "Mf">>,
            <<"X", "M", "Y", "S", "Y", "Mf">>, <<"S", "Y", "S", "Y", "Mf">>, <<"S", "B", "E", "Y", "Mf">>,
            <<"S", "M", "W", "N", "Y", "Mf">>, <<"T", "S", "E", "Y", "Mf">>, <<"A", "X", "D">>,
            <<"S", "N", "Y", "Y", "Mf">>, <<"S", "L", "W", "S", "H">>, <<"A", "R", "B", "E", "H">>,
            <<"X", "M", "Y", "S", "H">>, <<"S", "Y", "S", "H">>, <<"S", "B", "E", "H">>,
            <<"S", "M", "W", "N", "H">>, <<"T", "S", "E", "H">>, <<"A", "X", "T">>,
            <<"S", "T", "Y", "Y", "Mf">>, <<"S", "L", "W", "S">>, <<"A", "R", "B", "E">>,
            <<"X", "M", "S">>, <<"S", "S">>, <<"S", "B", "E">>,
            <<"S", "M", "W", "N", "H">>, <<"T", "S", "E">>
          >>
      p3g1 ==
          <<
            <<"A", "L", "Pf">>, <<"A", "L", "P", "Y", "Y", "Mf">>
          >>
      p3g2 ==
          <<
            <<"T", "S", "E">>, <<"S", "M", "W", "N", "H">>, <<"S", "B", "E">>,
            <<"S", "S">>, <<"X", "M", "S">>, <<"A", "R", "B", "E">>,
            <<"S", "L", "W", "S">>, <<"S", "T", "Y", "Y", "Mf">>, <<"A", "X", "T">>
          >>
      p3g3 ==
          <<
            <<"T", "S", "E", "Y", "Mf">>, <<"S", "M", "W", "N", "Y", "Mf">>, <<"S", "B", "E", "Y", "Mf">>,
            <<"S", "Y", "S", "Y", "Mf">>, <<"X", "M", "Y", "S", "Y", "Mf">>, <<"A", "R", "B", "E", "Y", "Mf">>,
            <<"S", "L", "W", "S", "Y", "Mf">>, <<"E", "S", "R", "Y", "Mf">>, <<"E", "S", "R">>
          >>
      p3g4 ==
          <<
            <<"T", "S", "E", "H">>, <<"S", "M", "W", "N", "H">>, <<"S", "B", "E", "H">>,
            <<"S", "Y", "S", "H">>, <<"X", "M", "Y", "S", "H">>, <<"A", "R", "B", "E", "H">>,
            <<"S", "L", "W", "S", "H">>, <<"S", "N", "Y", "Y", "Mf">>, <<"A", "X", "D">>,
            <<"T", "S", "E">>, <<"S", "M", "W", "N", "H">>, <<"S", "B", "E">>,
            <<"S", "S">>, <<"X", "M", "S">>, <<"A", "R", "B", "E">>,
            <<"S", "L", "W", "S">>, <<"S", "T", "Y", "Y", "Mf">>, <<"A", "X", "T">>
          >>
      p4g1 ==
          <<
            <<"L">>, <<"B">>, <<"H">>
          >>
      p4g2 ==
          <<
            <<"A", "X", "D">>, <<"S", "N", "Y", "Y", "Mf">>, <<"S", "L", "W", "S", "H">>,
            <<"A", "R", "B", "E", "H">>, <<"X", "M", "Y", "S", "H">>, <<"S", "Y", "S", "H">>,
            <<"S", "B", "E", "H">>, <<"S", "M", "W", "N", "H">>, <<"T", "S", "E", "H">>,
            <<"E", "S", "R", "H">>, <<"A", "X", "T">>, <<"S", "T", "Y", "Y", "Mf">>,
            <<"S", "L", "W", "S">>, <<"A", "R", "B", "E">>, <<"X", "M", "S">>,
            <<"S", "S">>, <<"S", "B", "E">>, <<"S", "M", "W", "N", "H">>,
            <<"T", "S", "E">>, <<"E", "S", "R">>, <<"E", "S", "R", "Y", "Mf">>,
            <<"S", "L", "W", "S", "Y", "Mf">>
          >>
      p4g3 ==
          <<
            <<"A", "X", "D">>, <<"S", "N", "Y", "Y", "Mf">>, <<"S", "L", "W", "S", "H">>,
            <<"A", "R", "B", "E", "H">>, <<"X", "M", "Y", "S", "H">>, <<"S", "Y", "S", "H">>,
            <<"S", "B", "E", "H">>, <<"S", "M", "W", "N", "H">>, <<"T", "S", "E", "H">>,
            <<"A", "X", "T">>, <<"S", "T", "Y", "Y", "Mf">>, <<"S", "L", "W", "S">>,
            <<"A", "R", "B", "E">>, <<"X", "M", "S">>, <<"S", "S">>,
            <<"S", "B", "E">>, <<"S", "M", "W", "N", "H">>, <<"T", "S", "E">>
          >>
      p5g1 ==
          <<
            <<"X", "M", "S", " ", "M", "A", "W", "T", " ", "A", "L", "Pf">>, <<"A", "R", "B", "E", " ", "M", "A", "W", "T", " ", "A", "L", "Pf">>, <<"S", "L", "W", "S", " ", "M", "A", "W", "T", " ", "A", "L", "Pf">>,
            <<"M", "A", "T", "Y", "Y", "Mf", " ", "A", "L", "Pf">>, <<"M", "A", "H", " ", "A", "L", "Pf">>, <<"A", "L", "Pf">>,
            <<"A", "L", "P", "Y", "Y", "Mf">>, <<"S", "L", "W", "S", "T", " ", "A", "L", "P", "Y", "Mf">>, <<"A", "R", "B", "E", "T", " ", "A", "L", "P", "Y", "Mf">>,
            <<"X", "M", "S", "T", " ", "A", "L", "P", "Y", "Mf">>, <<"S", "S", "T", " ", "A", "L", "P", "Y", "Mf">>, <<"S", "B", "E", "T", " ", "A", "L", "P", "Y", "Mf">>,
            <<"S", "M", "W", "N", "T", " ", "A", "L", "P", "Y", "Mf">>, <<"T", "S", "E", "T", " ", "A", "L", "P", "Y", "Mf">>, <<"E", "S", "R", "T", " ", "A", "L", "P", "Y", "Mf">>
          >>
      p5g2 ==
          <<
            <<"M", "A", "H">>, <<"M", "A", "T", "Y", "Y", "Mf">>, <<"S", "L", "W", "S", " ", "M", "A", "W", "T">>,
            <<"A", "R", "B", "E", " ", "M", "A", "W", "T">>, <<"X", "M", "S", " ", "M", "A", "W", "T">>, <<"E", "S", "R", "Y", "Mf">>,
            <<"S", "L", "W", "S", "Y", "Mf">>, <<"A", "R", "B", "E", "Y", "Mf">>, <<"X", "M", "Y", "S", "Y", "Mf">>,
            <<"S", "Y", "S", "Y", "Mf">>, <<"S", "B", "E", "Y", "Mf">>, <<"S", "M", "W", "N", "Y", "Mf">>,
            <<"T", "S", "E", "Y", "Mf">>, <<"A", "X", "D">>, <<"S", "N", "Y", "Y", "Mf">>,
            <<"S", "L", "W", "S", "H">>, <<"A", "R", "B", "E", "H">>, <<"X", "M", "Y", "S", "H">>,
            <<"S", "Y", "S", "H">>, <<"S", "B", "E", "H">>, <<"S", "M", "W", "N", "H">>,
            <<"T", "S", "E", "H">>, <<"A", "X", "T">>, <<"S", "T", "Y", "Y", "Mf">>,
            <<"S", "L", "W", "S">>, <<"A", "R", "B", "E">>, <<"X", "M", "S">>,
            <<"S", "S">>, <<"S", "B", "E">>, <<"S", "M", "W", "N", "H">>,
            <<"T", "S", "E">>
          >>
      p6g1 ==
          <<
            <<"S", "E", "H">>, <<"D", "Q", "H">>, <<"Y", "W", "Mf">>,
            <<"X", "W", "D", "S">>, <<"S", "N", "H">>
          >>
      p7g1 ==
          <<
            <<"K">>, <<"B">>, <<"L">>,
            <<"M">>, <<"Y", "W", "T", "R", " ", "M">>, <<"P", "X", "W", "T", " ", "M">>,
            <<"K", "M", "E", "Tt">>, <<"B", "E", "R", "Kf">>, <<"K", "M", "W">>,
            <<"E", "W", "D">>
          >>
      p7g2 ==
          <<
            <<"A", "L", "Pf">>, <<"A", "L", "P", "Y", "Y", "Mf">>, <<"S", "L", "W", "S", "T", " ", "A", "L", "P", "Y", "Mf">>,
            <<"A", "R", "B", "E", "T", " ", "A", "L", "P", "Y", "Mf">>, <<"X", "M", "S", "T", " ", "A", "L", "P", "Y", "Mf">>, <<"E", "S", "R", "T", " ", "A", "L", "P", "Y", "Mf">>,
            <<"M", "A", "H">>, <<"M", "A", "T", "Y", "Y", "Mf">>, <<"S", "L", "W", "S", " ", "M", "A", "W", "T">>,
            <<"A", "R", "B", "E", " ", "M", "A", "W", "T">>, <<"X", "M", "S", " ", "M", "A", "W", "T">>, <<"A", "X", "D">>,
            <<"S", "N", "Y", "Y", "Mf">>, <<"S", "L", "W", "S", "H">>, <<"A", "R", "B", "E", "H">>,
            <<"X", "M", "Y", "S", "H">>, <<"S", "Y", "S", "H">>, <<"S", "B", "E", "H">>,
            <<"S", "M", "W", "N", "H">>, <<"T", "S", "E", "H">>, <<"E", "S", "R", "H">>,
            <<"A", "X", "T">>, <<"S", "T", "Y", "Y", "Mf">>, <<"S", "L", "W", "S">>,
            <<"A", "R", "B", "E">>, <<"X", "M", "S">>, <<"S", "S">>,
            <<"S", "B", "E">>, <<"S", "M", "W", "N", "H">>, <<"T", "S", "E">>,
            <<"E", "S", "R">>, <<"E", "S", "R", "Y", "Mf">>, <<"S", "L", "W", "S", "Y", "Mf">>,
            <<"A", "R", "B", "E", "Y", "Mf">>, <<"X", "M", "Y", "S", "Y", "Mf">>, <<"S", "Y", "S", "Y", "Mf">>,
            <<"S", "B", "E", "Y", "Mf">>, <<"S", "M", "W", "N", "Y", "Mf">>, <<"T", "S", "E", "Y", "Mf">>
          >>
      p8g1 ==
          <<
            <<"A", "L", "Pf">>, <<"A", "L", "P", "Y", "Y", "Mf">>, <<"S", "L", "W", "S", "T", " ", "A", "L", "P", "Y", "Mf">>,
            <<"A", "R", "B", "E", "T", " ", "A", "L", "P", "Y", "Mf">>, <<"X", "M", "S", "T", " ", "A", "L", "P", "Y", "Mf">>, <<"S", "S", "T", " ", "A", "L", "P", "Y", "Mf">>,
            <<"S", "B", "E", "T", " ", "A", "L", "P", "Y", "Mf">>, <<"S", "M", "W", "N", "T", " ", "A", "L", "P", "Y", "Mf">>, <<"T", "S", "E", "T", " ", "A", "L", "P", "Y", "Mf">>,
            <<"E", "S", "R", "T", " ", "A", "L", "P", "Y", "Mf">>, <<"M", "A", "H">>, <<"M", "A", "T", "Y", "Y", "Mf">>,
            <<"S", "L", "W", "S", " ", "M", "A", "W", "T">>, <<"A", "R", "B", "E", " ", "M", "A", "W", "T">>, <<"X", "M", "S", " ", "M", "A", "W", "T">>,
            <<"S", "S", " ", "M", "A", "W", "T">>, <<"S", "B", "E", " ", "M", "A", "W", "T">>, <<"S", "M", "W", "N", "H", " ", "M", "A", "W", "T">>,
            <<"T", "S", "E", " ", "M", "A", "W", "T">>, <<"A", "X", "D", " ", "E", "S", "R">>, <<"S", "N", "Y", "Mf", " ", "E", "S", "R">>,
            <<"S", "L", "W", "S", "H", " ", "E", "S", "R">>, <<"A", "R", "B", "E", "H", " ", "E", "S", "R">>, <<"X", "M", "Y", "S", "H", " ", "E", "S", "R">>,
            <<"S", "Y", "S", "H", " ", "E", "S", "R">>, <<"S", "B", "E", "H", " ", "E", "S", "R">>, <<"S", "M", "W", "N", "H", " ", "E", "S", "R">>,
            <<"T", "S", "E", "H", " ", "E", "S", "R">>, <<"E", "S", "R", "Y", "Mf">>, <<"S", "L", "W", "S", "Y", "Mf">>,
            <<"A", "R", "B", "E", "Y", "Mf">>, <<"X", "M", "Y", "S", "Y", "Mf">>, <<"S", "Y", "S", "Y", "Mf">>,
            <<"S", "B", "E", "Y", "Mf">>, <<"S", "M", "W", "N", "Y", "Mf">>, <<"T", "S", "E", "Y", "Mf">>,
            <<"A", "X", "D">>, <<"S", "N", "Y", "Y", "Mf">>, <<"S", "L", "W", "S", "H">>,
            <<"A", "R", "B", "E", "H">>, <<"X", "M", "Y", "S", "H">>, <<"S", "Y", "S", "H">>,
            <<"S", "B", "E", "H">>, <<"S", "M", "W", "N", "H">>, <<"T", "S", "E", "H">>,
            <<"E", "S", "R", "H">>, <<"A", "X", "T">>, <<"S", "T", "Y", "Y", "Mf">>,
            <<"S", "L", "W", "S">>, <<"A", "R", "B", "E">>, <<"X", "M", "S">>,
            <<"S", "S">>, <<"S", "B", "E">>, <<"T", "S", "E">>,
            <<"E", "S", "R">>, <<"S", "N", "Y">>, <<"S", "T", "Y">>,
            <<"S", "L", "W", "S", "T">>, <<"A", "R", "B", "E", "T">>, <<"X", "M", "S", "T">>,
            <<"S", "S", "T">>, <<"S", "B", "E", "T">>, <<"S", "M", "W", "N", "T">>,
            <<"T", "S", "E", "T">>, <<"E", "S", "R", "T">>
          >>
      vav == <<"W">>
      bishnat == <<"B", "S", "N", "T">>
      meot == <<"M", "A", "W", "T">>
      vechetzi == <<"W", "X", "C", "Y">>
  IN
  << \* common compounds with vav: (\btens\b|...)\s+vav(\bunits\b|...)
     [pattern |-> <<Grp(1, AltsB(p1g1)), Ws, Lit(vav), Grp(2, AltsB(p1g2))>>,
      replacer |-> [k |-> "sum"]],
     \* hundreds with tens/units: (\bhundreds\b|...)\s+vav?(\bword\b|...)
     [pattern |-> <<Grp(1, AltsB(p2g1)), Ws, Opt(<<Lit(vav)>>), Grp(2, AltsB(p2g2))>>,
      replacer |-> [k |-> "sum"]],
     \* year expressions
     [pattern |-> <<Bnd, Lit(bishnat), Ws, Grp(1, AltsB(p3g1)), Ws, Grp(2, AltsB(p3g2)), Ws,
                    Lit(meot), Ws, Grp(3, AltsB(p3g3)),
                    Opt(<<Ws, Opt(<<Lit(vav)>>), Grp(4, AltsB(p3g4))>>)>>,
      replacer |-> [k |-> "year"]],
     \* common date expressions
     [pattern |-> <<Bnd, Grp(1, Alts(p4g1)), Grp(2, AltsB(p4g2)),
                    Opt(<<Ws, Opt(<<Lit(vav)>>), Grp(3, AltsB(p4g3))>>), Ws,
                    Grp(4, << <<Lit(<<"B">>), Run("word")>> >>)>>,
      replacer |-> [k |-> "date"]],
     \* complex number patterns with vav
     [pattern |-> <<Grp(1, AltsB(p5g1)), Ws, Opt(<<Lit(vav)>>), Grp(2, AltsB(p5g2))>>,
      replacer |-> [k |-> "complex"]],
     \* fractions: \b(unit|...)\s+vechetzi\b
     [pattern |-> <<Bnd, Grp(1, Alts(p6g1)), Ws, Lit(vechetzi), Bnd>>,
      replacer |-> [k |-> "fraction"]],
     \* common prefixes before numbers: \b(prefix|...)(\bnumber\b|...)
     [pattern |-> <<Bnd, Grp(1, Alts(p7g1)), Grp(2, AltsB(p7g2))>>,
      replacer |-> [k |-> "prefix"]],
     \* regular number patterns: \b(number|...)\b
     [pattern |-> <<Bnd, Grp(1, Alts(p8g1)), Bnd>>,
      replacer |-> [k |-> "regular"]] >>

\* the benchmark sentence of normalizeWithPatterns and the output stored for it
benchmarkText ==
  <<"Y", "S", " ", "X", "M", "S", " ", "M", "A", "W", "T", " ", "A", "L", "Pf", " ", "H", "W", "R", "Y", "Mf", " ", "W", "X", "M", "S", "T", " ", "A", "L", "P", "Y", "Y", "Mf", " ", "S", "L", "W", "S", " ", "M", "A", "W", "T", " ", "W", "S", "N", "Y", "Y", "Mf", " ", "Y", "L", "D", "Y", "Mf", " ", "N", "M", "C", "A", "Y", "Mf", " ", "B", "R", "C", "Y", "Pf", " ", "S", "M", "W", "N", "H">>

benchmarkResult ==
  <<"Y", "S", " ", "5", "0", "0", ",", "0", "0", "0", " ", "H", "W", "R", "Y", "Mf", " ", "W", "5", ",", "3", "0", "2", " ", "Y", "L", "D", "Y", "Mf", " ", "N", "M", "C", "A", "Y", "Mf", " ", "B", "R", "C", "Y", "Pf", " ", "8">>

\* normalizeWithPatterns: /\b(number|...)\b\s+(\w+)/g, the numbers of the regular pattern
nounFollowing ==
  LET regular == COMPOUND_PATTERNS[Len(COMPOUND_PATTERNS)].pattern
  IN regular \o <<Ws, Grp(2, << <<Run("word")>> >>)>>

\* the state of the shared regular expressions before any call
NoLastIndex == [j \in 1..Len(COMPOUND_PATTERNS) |-> 0]

\* the first match of re in t that starts at position i or later
FindFrom(re, t, i) ==
  With(FirstOf({p \in i..(Len(t) + 1) : MatchAt(re, t, p).ok}), LAMBDA p :
    IF p = 0 THEN NoMatch ELSE MatchAt(re, t, p))

\* pattern.test(s) on the global regular expression j: the search starts at
\* lastIndex; a match leaves lastIndex at its end, a failure sets it to 0
RegExpTest(li, j, s) ==
  With(IF li[j] > Len(s) THEN NoMatch ELSE FindFrom(COMPOUND_PATTERNS[j].pattern, s, li[j] + 1),
       LAMBDA r : [ok |-> r.ok, li |-> [li EXCEPT ![j] = IF r.ok THEN r.e - 1 ELSE 0]])

\* s.replace(pattern, replacer) with a global pattern starts at index 0
\* whatever lastIndex was, and leaves lastIndex at 0
lastIndexAfterReplace_kept(li, j) == li
lastIndexAfterReplace(li, j) == [li EXCEPT ![j] = 0]

\* parseInt(a.replace(/,/g, '')) + parseInt(b.replace(/,/g, '')), formatted;
\* parseInt of a text without a leading digit is NaN
SumWithCommas(a, b) ==
  LET NoCommas(s) == SelectSeq(s, LAMBDA c : c # ",")
      IsNum(s) == s # <<>> /\ IsDigit(s[1])
  IN IF IsNum(NoCommas(a)) /\ IsNum(NoCommas(b))
     THEN formatNumberWithCommas(ParseInt(NoCommas(a)) + ParseInt(NoCommas(b)))
     ELSE <<"N", "a", "N">>

\* The functions below take the lastIndex of the shared regular expressions
\* and return the text they produce (s), whether a pattern applied (changed)
\* and the lastIndex they leave behind (li).
RECURSIVE normalizeHebrewNumber(_, _), TryPatterns(_, _, _), StringReplace(_, _, _),
          ReplaceMatches(_, _, _, _), Replacer(_, _, _, _, _)

\* the replacer callbacks of COMPOUND_PATTERNS; those of the complex and the
\* prefix pattern call normalizeHebrewNumber on the captured texts
Replacer(li, rk, t, i, r) ==
  IF rk.k = "complex"
    THEN With(normalizeHebrewNumber(li, Cap(t, r, 1)), LAMBDA firstVal :
           With(normalizeHebrewNumber(firstVal.li, Cap(t, r, 2)), LAMBDA secondVal :
             [s |-> SumWithCommas(firstVal.s, secondVal.s), li |-> secondVal.li]))
  ELSE IF rk.k = "prefix"
    THEN With(normalizeHebrewNumber(li, Cap(t, r, 2)), LAMBDA numValue :
           [s |-> Cap(t, r, 1) \o <<"-">> \o numValue.s, li |-> numValue.li])
  ELSE [s |-> Replacement(rk, t, i, r), li |-> li]

\* the matches are found first, then the replacer runs on each of them
ReplaceMatches(li, t, j, i) ==
  With(FirstMatchStart(COMPOUND_PATTERNS[j].pattern, t, i), LAMBDA p :
    IF p = 0 THEN [s |-> Sub(t, i, Len(t) + 1), li |-> li]
    ELSE With(MatchAt(COMPOUND_PATTERNS[j].pattern, t, p), LAMBDA r :
           With(Replacer(li, COMPOUND_PATTERNS[j].replacer, t, p, r), LAMBDA done :
             With(ReplaceMatches(done.li, t, j, r.e), LAMBDA rest :
               [s |-> Sub(t, i, p) \o done.s \o rest.s, li |-> rest.li]))))

StringReplace(li, j, t) == ReplaceMatches(lastIndexAfterReplace(li, j), t, j, 1)

\* for (const { pattern, replacer } of COMPOUND_PATTERNS) if (pattern.test(x)) { replace; break }
TryPatterns(li, x, j) ==
  IF j > Len(COMPOUND_PATTERNS) THEN [s |-> x, changed |-> FALSE, li |-> li]
  ELSE With(RegExpTest(li, j, x), LAMBDA t :
         IF t.ok
         THEN With(StringReplace(t.li, j, x), LAMBDA r : [s |-> r.s, changed |-> TRUE, li |-> r.li])
         ELSE TryPatterns(t.li, x, j + 1))

normalizeHebrewNumber(li, hebrewNumber) ==
  IF Lookup(NUMBER_MAPPING, hebrewNumber) # Undef
  THEN [s |-> Lookup(NUMBER_MAPPING, hebrewNumber), changed |-> FALSE, li |-> li]
  ELSE TryPatterns(li, hebrewNumber, 1)

normalizeNumberWithPatterns(li, numberText) ==
  IF Lookup(NUMBER_MAPPING, numberText) # Undef
  THEN [s |-> Lookup(NUMBER_MAPPING, numberText), changed |-> FALSE, li |-> li]
  ELSE With(TryPatterns(li, numberText, 1), LAMBDA p :
         [p EXCEPT !.s = IF p.changed THEN p.s ELSE numberText])

\* normalizeWithPatterns, "Apply all patterns": every pattern is applied in
\* turn to the result of the one before
RECURSIVE ApplyCompound(_, _, _, _)
ApplyCompound(li, txt, anyChanges, j) ==
  IF j > Len(COMPOUND_PATTERNS) THEN [s |-> txt, changed |-> anyChanges, li |-> li]
  ELSE With(StringReplace(li, j, txt), LAMBDA r :
         ApplyCompound(r.li, r.s, anyChanges \/ r.s # txt, j + 1))

\* normalizeWithPatterns after the pattern loop, the stored benchmark output
\* left aside: platform numbers, numbers followed by a noun, and the choice
\* between the normalized and the original text
PatternPipeline(text, applied) ==
  IF applied.changed
  THEN ReplaceAll(ReplaceAll(applied.s, platformFallback, [k |-> "platformPrefix"]),
                  nounFollowing, [k |-> "noun"])
  ELSE text

normalizeWithPatterns(li, text) ==
  With(ApplyCompound(li, text, FALSE, 1), LAMBDA applied :
    [s |-> IF text = benchmarkText THEN benchmarkResult ELSE PatternPipeline(text, applied),
     changed |-> applied.changed,
     li |-> applied.li])

----------------------------------------------------------------------------
(* Bounds of the model.                                                    *)

MaxCalls == 1        \* normalizeTranscriptParallel invocations
MaxLen == 6          \* longest input array
MaxErrors == 1       \* worker 'error' events
MaxShutdowns == 1    \* shutdownWorkerPool invocations
Cpus == 2            \* os.cpus().length

CallIds == 1..MaxCalls
WorkerIds == 1..((MaxShutdowns + 1) * Cpus + MaxErrors)

----------------------------------------------------------------------------
(* Transcript records.  A record is a function from its keys; the text is  *)
(* a JavaScript value.                                                     *)

platformFive == W.beratzif \o <<" ">> \o W.chamesh            \* normalized: beratzif 5
SampleTexts == {Str(platformFive), Str(W.complex800k), Str(W.shalom), Str(<<>>), NonString("null")}

\* normalizeText applied to the text of a transcript record
Normalized(x) == normalized[x]

Spread(r, key, val) == [k \in DOMAIN r \cup {key} |-> IF k = key THEN val ELSE r[k]]   \* {...r, key: val}
Without(r, key) == [k \in DOMAIN r \ {key} |-> r[k]]                                   \* ({key, ...rest}) => rest

ValidText(i) == IF i % 3 = 1 THEN Str(platformFive) ELSE IF i % 3 = 2 THEN Str(W.complex800k) ELSE Str(W.shalom)

\* an input of n records; record number bad (if any) carries the text badText
MkInput(n, bad, badText) ==
  [i \in 1..n |-> [sentence_id |-> n + 1 - i,
                   speaker |-> i % 2,
                   text |-> IF i = bad THEN badText ELSE ValidText(i)]]

SmallBatchLimit == 5

Lens == {0, 1, SmallBatchLimit, MaxLen}

\* the empty transcript text '' is the text normalizeText rejects
Inputs ==
  {MkInput(n, 0, Str(<<>>)) : n \in Lens}
    \cup {MkInput(n, n, Str(<<>>)) : n \in {2, MaxLen}}

AllValid(input) == \A i \in 1..Len(input) : ~Normalized(input[i].text).error

\* sentences.map(s => ({...s, text: normalizeText(s.text)})), defined when no text throws
SequentialMap_dropLast(sentences) ==
  [i \in 1..(Len(sentences) - 1) |-> Spread(sentences[i], "text", Str(Normalized(sentences[i].text).value))]
SequentialMap(sentences) ==
  [i \in 1..Len(sentences) |-> Spread(sentences[i], "text", Str(Normalized(sentences[i].text).value))]

\* options: 0 stands for an absent option
Options ==
  {[numWorkers |-> 0, batchSize |-> 0], [numWorkers |-> 0, batchSize |-> 3],
   [numWorkers |-> 1, batchSize |-> 3]}
DefaultOptions == [numWorkers |-> 0, batchSize |-> 0]

Max(a, b) == IF a >= b THEN a ELSE b
Min2(a, b) == IF a <= b THEN a ELSE b
CeilDiv(a, b) == (a + b - 1) \div b

\* transcriptSentences.length <= 5: processed synchronously
IsSmallBatch_off(n) == n < SmallBatchLimit
IsSmallBatch(n) == n <= SmallBatchLimit

NumWorkersOf(options) == IF options.numWorkers # 0 THEN options.numWorkers ELSE Cpus

BatchSizeOf(options, n) ==
  IF options.batchSize # 0 THEN options.batchSize
  ELSE Max(10, CeilDiv(n, NumWorkersOf(options) * 3))

IndexedSentences(input) == [i \in 1..Len(input) |-> Spread(input[i], "__original_index", i - 1)]

\* indexedSentences.slice(i, i + batchSize) for i = 0, batchSize, ...
Batches(indexed, batchSize) ==
  [b \in 1..CeilDiv(Len(indexed), batchSize) |->
     Sub(indexed, (b - 1) * batchSize + 1, Min2(b * batchSize, Len(indexed)) + 1)]

----------------------------------------------------------------------------
(* normalization-worker.js: the message handler of a worker thread.        *)

ErrorObject == [error |-> "Input must be a non-empty string"]

\* the value the worker posts back for task.batch: the normalized batch, or
\* { error: message } when normalizeText threw for one of the items
WorkerReply(batch) ==
  IF \E i \in 1..Len(batch) : Normalized(batch[i].text).error
  THEN [isArray |-> FALSE, items |-> <<ErrorObject>>]
  ELSE [isArray |-> TRUE,
        items |-> [i \in 1..Len(batch) |->
                     Spread(batch[i], "text", Str(Normalized(batch[i].text).value))]]

----------------------------------------------------------------------------
(* The tail of normalizeTranscriptParallel: flat, sort, strip the index.   *)

\* batchResults.flat(): an array contributes its elements, any other value itself
RECURSIVE Flat(_)
Flat(results) == IF results = <<>> THEN <<>> ELSE Head(results).items \o Flat(Tail(results))

HasIndex(r) == "__original_index" \in DOMAIN r

\* (a, b) => a.__original_index - b.__original_index; NaN counts as 0 in sort
Compare_reversed(a, b) ==
  IF HasIndex(a) /\ HasIndex(b) THEN b["__original_index"] - a["__original_index"] ELSE 0
Compare(a, b) ==
  IF HasIndex(a) /\ HasIndex(b) THEN a["__original_index"] - b["__original_index"] ELSE 0

\* stable insertion of x into the sorted sequence ss
RECURSIVE Insert(_, _)
Insert(ss, x) ==
  IF ss = <<>> THEN <<x>>
  ELSE LET last == ss[Len(ss)]
       IN IF Compare(last, x) > 0
          THEN Insert(SubSeq(ss, 1, Len(ss) - 1), x) \o <<last>>
          ELSE ss \o <<x>>

RECURSIVE SortFrom(_, _)
SortFrom(sorted, todo) ==
  IF todo = <<>> THEN sorted ELSE SortFrom(Insert(sorted, Head(todo)), Tail(todo))

SortByIndex(rs) == SortFrom(<<>>, rs)

StripIndex(rs) == [i \in 1..Len(rs) |-> Without(rs[i], "__original_index")]

----------------------------------------------------------------------------
(* State of the pool, the tasks and the calls.                             *)

NoPool(gen) ==
  [exists |-> FALSE, gen |-> gen, numWorkers |-> 0, workers |-> <<>>, freeWorkers |-> <<>>,
   taskQueue |-> <<>>, initialized |-> FALSE, initPending |-> FALSE,
   shuttingDown |-> FALSE, exitWait |-> {}]

IdleCall ==
  [pc |-> "idle", input |-> <<>>, options |-> DefaultOptions, creator |-> FALSE,
   poolErr |-> FALSE, gen |-> 0, taskIds |-> <<>>, outOfOrder |-> FALSE, path |-> "none",
   result |-> <<>>]

PoolInit ==
  /\ globalWorkerPool = NoPool(0)
  /\ wstate = [w \in WorkerIds |-> "none"]
  /\ currentTask = [w \in WorkerIds |-> 0]
  /\ inflight = [w \in WorkerIds |-> FALSE]
  /\ tasks = <<>>
  /\ calls = [c \in CallIds |-> IdleCall]
  /\ nErrors = 0
  /\ nShutdowns = 0


\* patternMatcher.js as loaded: every regular expression starts at lastIndex 0
CoreIdle ==
  /\ lastIndex = NoLastIndex
  /\ nCoreCalls = 0

TextIdle ==
  /\ arg = NonString("undefined")
  /\ fn = "none"
  /\ tpc = "off"
  /\ res1 = Returned(<<>>, <<>>)
  /\ res2 = Returned(<<>>, <<>>)
  /\ normalized = [x \in SampleTexts |-> normalizeText(x)]
  /\ CoreIdle

Init == PoolInit /\ TextIdle

SeqToSet(ss) == {ss[i] : i \in 1..Len(ss)}
Remove(ss, x) == SelectSeq(ss, LAMBDA y : y # x)

TaskRejected(c) == \E i \in 1..Len(calls[c].taskIds) : tasks[calls[c].taskIds[i]].state = "rejected"
TasksResolved(c) == \A i \in 1..Len(calls[c].taskIds) : tasks[calls[c].taskIds[i]].state = "resolved"

\* Promise.all(batchPromises) has settled and the continuation of the call is queued
BatchesReady(c) == calls[c].pc = "awaitBatches" /\ (TaskRejected(c) \/ TasksResolved(c))

ExitsDone ==
  /\ globalWorkerPool.shuttingDown
  /\ \A w \in globalWorkerPool.exitWait : wstate[w] = "exited"

\* a promise continuation is queued: it runs before the next worker event
MicrotaskPending ==
  \/ globalWorkerPool.initPending
  \/ \E c \in CallIds : calls[c].pc = "awaitPool" \/ BatchesReady(c)
  \/ ExitsDone

\* the fresh worker id used by the next new Worker(...)
NextWorker == Cardinality({w \in WorkerIds : wstate[w] # "none"}) + 1

----------------------------------------------------------------------------
(* WorkerPool.runTask / _runTask, applied to the batches of one call.      *)

\* _runTask with freeWorkers[length - 1] in place of freeWorkers.pop(): the
\* worker stays in freeWorkers
RunOnFree_keepFree(st, tid) ==
  LET w == st.pool.freeWorkers[Len(st.pool.freeWorkers)]
  IN [st EXCEPT !.currentTask[w] = tid,
                !.inflight[w] = (wstate[w] = "alive"),
                !.tasks[tid].worker = IF wstate[w] = "alive" THEN w ELSE 0]

\* _runTask(task): pop a free worker, remember the task, post the data (the
\* task records the live worker its data was posted to)
RunOnFree(st, tid) ==
  LET w == st.pool.freeWorkers[Len(st.pool.freeWorkers)]
  IN [st EXCEPT !.pool.freeWorkers = SubSeq(st.pool.freeWorkers, 1, Len(st.pool.freeWorkers) - 1),
                !.currentTask[w] = tid,
                !.inflight[w] = (wstate[w] = "alive"),
                !.tasks[tid].worker = IF wstate[w] = "alive" THEN w ELSE 0]

\* runTask(data) on an initialized pool: run at once or queue
RunTask(st, c, batch) ==
  LET tid == Len(st.tasks) + 1
      task == [call |-> c, data |-> batch, state |-> "pending",
               result |-> [isArray |-> TRUE, items |-> <<>>], settles |-> 0,
               worker |-> 0, answered |-> FALSE]
      st1 == [st EXCEPT !.tasks = Append(st.tasks, task), !.taskIds = Append(st.taskIds, tid)]
  IN IF st1.pool.freeWorkers # <<>>
     THEN RunOnFree(st1, tid)
     ELSE [st1 EXCEPT !.pool.taskQueue = Append(st1.pool.taskQueue, tid)]

RECURSIVE SubmitAll(_, _, _)
SubmitAll(st, c, batches) ==
  IF batches = <<>> THEN st ELSE SubmitAll(RunTask(st, c, Head(batches)), c, Tail(batches))

\* the catch block: sequential processing in the caller's context
Fallback_rethrow(c) == [calls[c] EXCEPT !.pc = "rejected", !.path = "fallback"]
Fallback(c) ==
  IF AllValid(calls[c].input)
  THEN [calls[c] EXCEPT !.pc = "done", !.path = "fallback", !.result = SequentialMap(calls[c].input)]
  ELSE [calls[c] EXCEPT !.pc = "rejected", !.path = "fallback"]

----------------------------------------------------------------------------
(* Actions of the batch API and of the pool.                               *)

\* normalizeTranscriptParallel(transcriptSentences, options) up to its first
\* await, _ensureWorkerPool and the synchronous part of initialize() included
NormalizeTranscriptParallel(c) ==
  /\ calls[c].pc = "idle"
  /\ \A d \in CallIds : d < c => calls[d].pc # "idle"
  /\ \E input \in Inputs, options \in Options, mode \in {"ok", "scriptMissing", "workerThrows"} :
       LET base == [IdleCall EXCEPT !.input = input, !.options = options]
           n == NumWorkersOf(options)
           gen == globalWorkerPool.gen
           ids == [j \in 1..n |-> NextWorker + j - 1]
       IN /\ (Len(input) = 0 \/ IsSmallBatch(Len(input))) => (options = DefaultOptions /\ mode = "ok")
          /\ ~AllValid(input) => options = DefaultOptions
          /\ globalWorkerPool.exists => mode = "ok"
          /\ IF Len(input) = 0
               THEN /\ calls' = [calls EXCEPT ![c] = [base EXCEPT !.pc = "done", !.path = "empty"]]
                    /\ UNCHANGED <<globalWorkerPool, wstate>>
             ELSE IF IsSmallBatch(Len(input))
               THEN /\ calls' = [calls EXCEPT ![c] =
                          IF AllValid(input)
                          THEN [base EXCEPT !.pc = "done", !.path = "sync", !.result = SequentialMap(input)]
                          ELSE [base EXCEPT !.pc = "rejected", !.path = "sync"]]
                    /\ UNCHANGED <<globalWorkerPool, wstate>>
             ELSE IF globalWorkerPool.exists
               THEN /\ calls' = [calls EXCEPT ![c] = [base EXCEPT !.pc = "awaitPool", !.gen = gen]]
                    /\ UNCHANGED <<globalWorkerPool, wstate>>
             ELSE IF mode = "scriptMissing"
               THEN /\ calls' = [calls EXCEPT ![c] = [base EXCEPT !.pc = "awaitPool", !.poolErr = TRUE]]
                    /\ UNCHANGED <<globalWorkerPool, wstate>>
             ELSE IF mode = "workerThrows"
               THEN /\ calls' = [calls EXCEPT ![c] =
                          [base EXCEPT !.pc = "awaitPool", !.poolErr = TRUE, !.gen = gen + 1]]
                    /\ globalWorkerPool' = [NoPool(gen + 1) EXCEPT !.exists = TRUE, !.numWorkers = n]
                    /\ UNCHANGED wstate
             ELSE /\ calls' = [calls EXCEPT ![c] =
                        [base EXCEPT !.pc = "awaitPool", !.creator = TRUE, !.gen = gen + 1]]
                  /\ globalWorkerPool' = [NoPool(gen + 1) EXCEPT !.exists = TRUE, !.numWorkers = n,
                                            !.workers = ids, !.freeWorkers = ids, !.initPending = TRUE]
                  /\ wstate' = [w \in WorkerIds |-> IF w \in SeqToSet(ids) THEN "alive" ELSE wstate[w]]
  /\ UNCHANGED <<currentTask, inflight, tasks, nErrors, nShutdowns, textVars>>

\* initialize(): the continuation after await Promise.all(initPromises)
InitializeDone ==
  /\ globalWorkerPool.initPending
  /\ globalWorkerPool' = [globalWorkerPool EXCEPT !.initPending = FALSE, !.initialized = TRUE]
  /\ UNCHANGED <<wstate, currentTask, inflight, tasks, calls, nErrors, nShutdowns, textVars>>

\* normalizeTranscriptParallel after await _ensureWorkerPool: batches, runTask
SubmitBatches(c) ==
  /\ calls[c].pc = "awaitPool"
  /\ ~(calls[c].creator /\ globalWorkerPool.gen = calls[c].gen /\ globalWorkerPool.initPending)
  /\ LET input == calls[c].input
         usable == /\ globalWorkerPool.exists
                   /\ globalWorkerPool.gen = calls[c].gen
                   /\ globalWorkerPool.initialized
         batches == Batches(IndexedSentences(input), BatchSizeOf(calls[c].options, Len(input)))
         st0 == [pool |-> globalWorkerPool, currentTask |-> currentTask, inflight |-> inflight,
                 tasks |-> tasks, taskIds |-> <<>>]
         st == SubmitAll(st0, c, batches)
     IN IF calls[c].poolErr \/ ~usable
        THEN /\ calls' = [calls EXCEPT ![c] = Fallback(c)]
             /\ UNCHANGED <<globalWorkerPool, currentTask, inflight, tasks>>
        ELSE /\ calls' = [calls EXCEPT ![c].pc = "awaitBatches", ![c].taskIds = st.taskIds]
             /\ globalWorkerPool' = st.pool
             /\ currentTask' = st.currentTask
             /\ inflight' = st.inflight
             /\ tasks' = st.tasks
  /\ UNCHANGED <<wstate, nErrors, nShutdowns, textVars>>

\* task tid is answered while a batch submitted before it by the same call is still pending
EarlierPending(tid) ==
  \E u \in 1..(tid - 1) : tasks[u].call = tasks[tid].call /\ tasks[u].state = "pending"

\* the task whose data worker w answers next: the first of those posted to
\* it and not answered yet (an answered task is no longer with the worker)
AnsweredTask(w) ==
  FirstOf({t \in 1..Len(tasks) : tasks[t].worker = w /\ ~tasks[t].answered})

\* worker.on('message'): free the worker, resolve the task, run the next queued task
WorkerMessage(w) ==
  /\ ~MicrotaskPending
  /\ inflight[w]
  /\ wstate[w] \in {"alive", "terminated"}
  /\ LET tid == currentTask[w]
         pool1 == [globalWorkerPool EXCEPT !.freeWorkers = Append(globalWorkerPool.freeWorkers, w)]
         st1 == [pool |-> pool1,
                 currentTask |-> [currentTask EXCEPT ![w] = 0],
                 inflight |-> [inflight EXCEPT ![w] = FALSE],
                 tasks |-> tasks, taskIds |-> <<>>]
         next == Head(pool1.taskQueue)
         st2 == IF pool1.taskQueue # <<>>
                THEN RunOnFree([st1 EXCEPT !.pool.taskQueue = Tail(pool1.taskQueue)], next)
                ELSE st1
     IN /\ tasks' = [st2.tasks EXCEPT
                       ![AnsweredTask(w)] = [@ EXCEPT !.answered = TRUE, !.worker = 0],
                       ![tid] = IF @.state = "pending"
                                THEN [@ EXCEPT !.state = "resolved",
                                               !.result = WorkerReply(tasks[AnsweredTask(w)].data),
                                               !.settles = @ + 1]
                                ELSE [@ EXCEPT !.settles = @ + 1]]
        /\ calls' = [calls EXCEPT ![tasks[tid].call].outOfOrder = @ \/ EarlierPending(tid)]
        /\ globalWorkerPool' = st2.pool
        /\ currentTask' = st2.currentTask
        /\ inflight' = st2.inflight
  /\ UNCHANGED <<wstate, nErrors, nShutdowns, textVars>>

\* _replaceWorker with a new worker that is not pushed onto freeWorkers
ReplaceWorker_notFree(pool, w, nw) ==
  [pool EXCEPT !.workers = Append(Remove(pool.workers, w), nw),
               !.freeWorkers = Remove(pool.freeWorkers, w)]

\* _replaceWorker(deadWorker): drop the dead worker, create a new free one
ReplaceWorker(pool, w, nw) ==
  [pool EXCEPT !.workers = Append(Remove(pool.workers, w), nw),
               !.freeWorkers = Append(Remove(pool.freeWorkers, w), nw)]

\* worker.on('error'): reject the current task, replace the worker
WorkerError(w) ==
  /\ ~MicrotaskPending
  /\ nErrors < MaxErrors
  /\ wstate[w] = "alive"
  /\ inflight[w]
  /\ LET tid == currentTask[w]
     IN tasks' = IF tid # 0
                 THEN [tasks EXCEPT ![tid] =
                         IF tasks[tid].state = "pending"
                         THEN [tasks[tid] EXCEPT !.state = "rejected", !.settles = @ + 1]
                         ELSE [tasks[tid] EXCEPT !.settles = @ + 1]]
                 ELSE tasks
  /\ globalWorkerPool' = ReplaceWorker(globalWorkerPool, w, NextWorker)
  /\ wstate' = [wstate EXCEPT ![w] = "crashed", ![NextWorker] = "alive"]
  /\ inflight' = [inflight EXCEPT ![w] = FALSE]
  /\ nErrors' = nErrors + 1
  /\ UNCHANGED <<currentTask, calls, nShutdowns, textVars>>

\* normalizeTranscriptParallel after await Promise.all(batchPromises), or its catch block
BatchesSettled(c) ==
  /\ BatchesReady(c)
  /\ LET results == [i \in 1..Len(calls[c].taskIds) |-> tasks[calls[c].taskIds[i]].result]
     IN calls' = [calls EXCEPT ![c] =
                    IF TaskRejected(c) THEN Fallback(c)
                    ELSE [calls[c] EXCEPT !.pc = "done", !.path = "pool",
                                          !.result = StripIndex(SortByIndex(Flat(results)))]]
  /\ UNCHANGED <<globalWorkerPool, wstate, currentTask, inflight, tasks, nErrors, nShutdowns, textVars>>

\* shutdownWorkerPool() / WorkerPool.shutdown() up to await Promise.all(terminationPromises):
\* every worker of the pool is terminated
ShutdownWorkerPool ==
  /\ globalWorkerPool.exists
  /\ ~globalWorkerPool.shuttingDown
  /\ nShutdowns < MaxShutdowns
  /\ globalWorkerPool' = [globalWorkerPool EXCEPT !.shuttingDown = TRUE,
                                                   !.exitWait = SeqToSet(globalWorkerPool.workers)]
  /\ wstate' = [w \in WorkerIds |->
                  IF w \in SeqToSet(globalWorkerPool.workers) THEN "terminated" ELSE wstate[w]]
  /\ nShutdowns' = nShutdowns + 1
  /\ UNCHANGED <<currentTask, inflight, tasks, calls, nErrors, textVars>>

\* the 'exit' event of a terminated worker: whatever it was running is gone
WorkerExit(w) ==
  /\ ~MicrotaskPending
  /\ wstate[w] = "terminated"
  /\ wstate' = [wstate EXCEPT ![w] = "exited"]
  /\ inflight' = [inflight EXCEPT ![w] = FALSE]
  /\ UNCHANGED <<globalWorkerPool, currentTask, tasks, calls, nErrors, nShutdowns, textVars>>

\* shutdown() after the await: reset the pool; shutdownWorkerPool: globalWorkerPool = null
ShutdownDone ==
  /\ ExitsDone
  /\ globalWorkerPool' = NoPool(globalWorkerPool.gen)
  /\ UNCHANGED <<wstate, currentTask, inflight, tasks, calls, nErrors, nShutdowns, textVars>>

Next ==
  \/ \E c \in CallIds : NormalizeTranscriptParallel(c)
  \/ InitializeDone
  \/ \E c \in CallIds : SubmitBatches(c)
  \/ \E w \in WorkerIds : WorkerMessage(w)
  \/ \E w \in WorkerIds : WorkerError(w)
  \/ \E c \in CallIds : BatchesSettled(c)
  \/ ShutdownWorkerPool
  \/ \E w \in WorkerIds : WorkerExit(w)
  \/ ShutdownDone

Spec == Init /\ [][Next]_vars

----------------------------------------------------------------------------
(* The WorkerPool class on its own: one pool object whose methods a client *)
(* calls directly, in any order, between the events of its workers.        *)

MaxTasks == 3        \* runTask calls

\* the data of the task of runTask call number k: a batch of k records, so
\* that no two tasks carry the same data
PoolData(k) == MkInput(k, 0, Str(<<>>))

\* if (!this.initialized) throw new Error(...)
NotInitialized_never(pool) == FALSE
NotInitialized(pool) == ~pool.initialized

NotInitializedError ==
  [error |-> TRUE, value |-> <<"Worker pool not initialized. Call initialize() first.">>,
   steps |-> <<>>]

\* new WorkerPool(Cpus, workerScript)
PoolClassInit ==
  /\ globalWorkerPool = [NoPool(0) EXCEPT !.exists = TRUE, !.numWorkers = Cpus]
  /\ wstate = [w \in WorkerIds |-> "none"]
  /\ currentTask = [w \in WorkerIds |-> 0]
  /\ inflight = [w \in WorkerIds |-> FALSE]
  /\ tasks = <<>>
  /\ calls = [c \in CallIds |-> IdleCall]
  /\ nErrors = 0
  /\ nShutdowns = 0
  /\ TextIdle

\* initialize() up to its await: _createWorker for each of the workers, which
\* pushes the worker onto workers and freeWorkers.  A call on an initialized
\* pool returns at once; the client does not call initialize() before an
\* earlier initialize() or shutdown() has completed.
Initialize ==
  /\ ~globalWorkerPool.initialized
  /\ ~globalWorkerPool.initPending
  /\ ~globalWorkerPool.shuttingDown
  /\ NextWorker + Cpus - 1 \in WorkerIds
  /\ LET ids == [j \in 1..Cpus |-> NextWorker + j - 1]
     IN /\ globalWorkerPool' = [globalWorkerPool EXCEPT !.exists = TRUE, !.numWorkers = Cpus,
                                                        !.workers = @ \o ids,
                                                        !.freeWorkers = @ \o ids,
                                                        !.initPending = TRUE]
        /\ wstate' = [w \in WorkerIds |-> IF w \in SeqToSet(ids) THEN "alive" ELSE wstate[w]]
  /\ UNCHANGED <<currentTask, inflight, tasks, calls, nErrors, nShutdowns, textVars>>

\* runTask(data): throws on a pool that is not initialized, else runs the
\* task on a free worker or queues it
CallRunTask ==
  /\ nCoreCalls < MaxTasks
  /\ \E data \in {PoolData(nCoreCalls + 1)} :
       LET st0 == [pool |-> globalWorkerPool, currentTask |-> currentTask, inflight |-> inflight,
                   tasks |-> tasks, taskIds |-> <<>>]
       IN IF NotInitialized(globalWorkerPool)
          THEN /\ res1' = NotInitializedError
               /\ UNCHANGED <<globalWorkerPool, currentTask, inflight, tasks>>
          ELSE /\ res1' = Returned(<<>>, <<>>)
               /\ globalWorkerPool' = RunTask(st0, 1, data).pool
               /\ currentTask' = RunTask(st0, 1, data).currentTask
               /\ inflight' = RunTask(st0, 1, data).inflight
               /\ tasks' = RunTask(st0, 1, data).tasks
  /\ nCoreCalls' = nCoreCalls + 1
  /\ fn' = "runTask"
  /\ UNCHANGED <<arg, tpc, res2, normalized, lastIndex, wstate, calls, nErrors, nShutdowns>>

PoolNext ==
  \/ Initialize
  \/ InitializeDone
  \/ CallRunTask
  \/ \E w \in WorkerIds : WorkerMessage(w)
  \/ \E w \in WorkerIds : WorkerError(w)
  \/ ShutdownWorkerPool
  \/ \E w \in WorkerIds : WorkerExit(w)
  \/ ShutdownDone

SpecPool == PoolClassInit /\ [][PoolNext]_vars

----------------------------------------------------------------------------
(* The text entry points exercised on their own: an argument is drawn, an  *)
(* entry point is applied to it, and normalizeText is applied once more to *)
(* what it returned.                                                       *)

MaxWords == 3        \* most pieces in an argument text

\* the pieces argument texts are built from: a numeral word, a numeral
\* phrase, the same phrase behind the conjunction, the platform word, an
\* ordinary word, a digit and a lookup-table key
TextPieces ==
  {W.shmone, W.complex800k, W.vav \o W.complex800k, W.beratzif, W.sason, <<"5">>, textTests[1][1]}

RECURSIVE JoinWords(_)
JoinWords(ws) ==
  IF Len(ws) = 1 THEN ws[1] ELSE ws[1] \o <<" ">> \o JoinWords(Tail(ws))

TextArgs ==
  {NonString(ty) : ty \in NonStringTypes}
    \cup {Str(<<>>)}
    \cup {Str(JoinWords(ws)) : ws \in UNION {[1..n -> TextPieces] : n \in 1..MaxWords}}

NoResult == Returned(<<>>, <<>>)

TextInit ==
  /\ PoolInit
  /\ normalized = [x \in SampleTexts |-> normalizeText(x)]
  /\ CoreIdle
  /\ arg \in TextArgs
  /\ fn = "none"
  /\ tpc = "start"
  /\ res1 = NoResult
  /\ res2 = NoResult

CallNormalizeText ==
  /\ tpc = "start"
  /\ fn' = "normalizeText"
  /\ res1' = normalizeText(arg)
  /\ tpc' = "once"
  /\ UNCHANGED <<arg, res2, normalized, lastIndex, nCoreCalls, poolVars>>

CallNormalizeNumber ==
  /\ tpc = "start"
  /\ fn' = "normalizeNumber"
  /\ res1' = normalizeNumber(arg)
  /\ tpc' = "once"
  /\ UNCHANGED <<arg, res2, normalized, lastIndex, nCoreCalls, poolVars>>

\* normalizeText(normalizeText(t)), when the first call returned
CallNormalizeTextAgain ==
  /\ tpc = "once"
  /\ fn = "normalizeText"
  /\ ~res1.error
  /\ res2' = normalizeText(Str(res1.value))
  /\ tpc' = "twice"
  /\ UNCHANGED <<arg, fn, res1, normalized, lastIndex, nCoreCalls, poolVars>>

TextNext == CallNormalizeText \/ CallNormalizeNumber \/ CallNormalizeTextAgain

SpecText == TextInit /\ [][TextNext]_vars

----------------------------------------------------------------------------------------------------------------------------------------
(* The pure functions of the core modules (textProcessor.js, numberRecog-  *)
(* nizer.js, numberConverter.js) exercised on their own: an argument is    *)
(* drawn and one of the functions that take it is applied to it.           *)

MaxTokens == 3       \* most words in a text handed to the tokenizer and the detectors

Spaces(n) == [k \in 1..n |-> " "]

\* a numeral word, the scale word of the hundreds, the conjunction, an
\* ordinary word and a compound token
CoreWords == {W.chamesh, W.meot, W.vav, W.shalom, W.esrim \o <<"_">> \o W.shalosh}

\* texts: words, the whitespace in front of the first and between two words
TextInputs ==
  [k : {"text"}, words : UNION {[1..n -> CoreWords] : n \in 0..MaxTokens}, lead : 0..1, gap : 1..2]

TextOf(a) == Spaces(a.lead) \o Join(a.words, Spaces(a.gap))

MaxNumber == 1100     \* formatNumberWithCommas is applied to every number up to this one

\* numbers: all the small ones, and larger ones of every length up to 2^31 - 1
NumInputs ==
  [k : {"num"},
   n : (0..MaxNumber) \cup {9999, 10000, 12345, 99999, 100000, 999999, 1000000, 1234567,
                             999999999, 1000000000, 2147483647}]

\* token arrays for the converter: a unit, a ten, the hundred, the scale
\* words of the hundreds and the thousands, the conjunction and an ordinary
\* word
TokenInputs ==
  [k : {"tokens"},
   tokens : UNION {[1..n -> {W.chamesh, W.esrim, W.mea, W.meot, W.elef, W.vav, W.shalom}] :
                     n \in 0..MaxTokens}]

\* a text and expressions for the reconstructor: the text is words with one
\* blank between two (a numeral word, the word the special case names, a
\* platform word, a word of a digit and the conjunction, an ordinary word);
\* the expressions are some of its words, each with its true offsets, all
\* with the same replacement, handed over from left to right or from right
\* to left
SpliceInputs ==
  {LET all == [i \in 1..Len(ws) |->
                [startIndex |-> TokenStart(ws, i), endIndex |-> TokenStart(ws, i) + Len(ws[i]),
                 original |-> ws[i], normalized |-> n]]
       asc == SelectSeq(all, LAMBDA e : \E i \in S \cap (1..Len(ws)) : e.startIndex = TokenStart(ws, i))
   IN [k |-> "splice", text |-> Join(ws, <<" ">>),
       exprs |-> IF reversed THEN [i \in 1..Len(asc) |-> asc[Len(asc) + 1 - i]] ELSE asc] :
     ws \in UNION {[1..m -> {W.chamesh, W.shmone, W.beratzif, <<"5">> \o W.vav, W.shalom}] : m \in 1..MaxTokens},
     S \in SUBSET (1..MaxTokens),
     n \in {<<"7">>, <<"1", ",", "0", "0", "0">>},
     reversed \in BOOLEAN}

CoreArgs == TextInputs \cup NumInputs \cup TokenInputs \cup SpliceInputs

CoreInit ==
  /\ PoolInit
  /\ normalized = [x \in SampleTexts |-> normalizeText(x)]
  /\ CoreIdle
  /\ arg \in CoreArgs
  /\ fn = "none"
  /\ tpc = "off"
  /\ res1 = NoResult
  /\ res2 = NoResult

CoreCall(kind, name, value) ==
  /\ nCoreCalls = 0
  /\ arg.k = kind
  /\ nCoreCalls' = 1
  /\ fn' = name
  /\ res1' = Returned(value, <<>>)
  /\ UNCHANGED <<arg, tpc, res2, normalized, lastIndex, poolVars>>

CallTokenize == CoreCall("text", "tokenize", tokenize(TextOf(arg)))

CallDetectNumberExpressions ==
  CoreCall("text", "detectNumberExpressions", detectNumberExpressions(TextOf(arg)))

\* the detector of numberRecognizer.js on the tokens of the text
CallFindNumberExpressions ==
  CoreCall("text", "findNumberExpressions", findNumberExpressions(tokenize(TextOf(arg))))

CallFormatNumberWithCommas ==
  CoreCall("num", "formatNumberWithCommas", formatNumberWithCommas(arg.n))

CallParseNumberExpression ==
  CoreCall("tokens", "parseNumberExpression", parseNumberExpression(arg.tokens))

CallConvertToDigits ==
  CoreCall("tokens", "convertToDigits", convertToDigits([tokens |-> arg.tokens]))

CallReconstruct == CoreCall("splice", "reconstruct", reconstruct(arg.text, arg.exprs))

CoreNext ==
  \/ CallTokenize
  \/ CallDetectNumberExpressions
  \/ CallFindNumberExpressions
  \/ CallFormatNumberWithCommas
  \/ CallParseNumberExpression
  \/ CallConvertToDigits
  \/ CallReconstruct

SpecCore == CoreInit /\ [][CoreNext]_vars

----------------------------------------------------------------------------
(* The functions of patternMatcher.js, with normalizeText and              *)
(* normalizeNumber, called one after the other in one process: every call  *)
(* finds the lastIndex values the calls before it left.                    *)

MaxHistory == 3

PatternTexts ==
  { W.shmone,
    <<"a">> \o W.shmone \o <<"a">>,
    <<"a", "S", "E", "H", " ", "W", "X", "C", "Y", "a">>,
    <<"a">> \o W.shmone \o <<"a", " ">> \o W.beratzif \o <<" ">> \o W.chamesh,
    W.elefUMatayim,
    textTests[1][1],
    benchmarkText }

PatternFns == {"normalizeHebrewNumber", "normalizeNumberWithPatterns", "normalizeWithPatterns"}

\* the outcome of calling function name on text t when the shared regular
\* expressions are in state li
CallOutcome(name, li, t) ==
  CASE name = "normalizeHebrewNumber" -> normalizeHebrewNumber(li, t)
    [] name = "normalizeNumberWithPatterns" -> normalizeNumberWithPatterns(li, t)
    [] name = "normalizeWithPatterns" -> normalizeWithPatterns(li, t)

PatternInit ==
  /\ PoolInit
  /\ normalized = [x \in SampleTexts |-> normalizeText(x)]
  /\ CoreIdle
  /\ arg = [k |-> "pattern", text |-> <<>>]
  /\ fn = "none"
  /\ tpc = "fresh"
  /\ res1 = NoResult
  /\ res2 = NoResult

\* the bookkeeping of one more call: tpc turns to "tested" once a call before
\* the current one had a pattern whose test() succeeded
NextCall(name, t) ==
  /\ nCoreCalls < MaxHistory
  /\ nCoreCalls' = nCoreCalls + 1
  /\ arg' = [k |-> "pattern", text |-> t]
  /\ fn' = name
  /\ tpc' = IF fn \in PatternFns \ {"normalizeWithPatterns"} /\ res1.steps # <<>>
            THEN "tested" ELSE tpc
  /\ UNCHANGED <<res2, normalized, poolVars>>

\* the value and the lastIndex of an outcome, as the next state
Outcome(out) ==
  /\ res1' = Returned(out.s, IF out.changed THEN <<"pattern">> ELSE <<>>)
  /\ lastIndex' = out.li

PatternCall(name) ==
  \E t \in PatternTexts : NextCall(name, t) /\ Outcome(CallOutcome(name, lastIndex, t))

CallNormalizeHebrewNumber == PatternCall("normalizeHebrewNumber")
CallNormalizeNumberWithPatterns == PatternCall("normalizeNumberWithPatterns")
CallNormalizeWithPatterns == PatternCall("normalizeWithPatterns")

\* index.js creates its regular expressions in the call: lastIndex is not touched
CallNormalizeTextBetween ==
  \E t \in PatternTexts :
    /\ NextCall("normalizeText", t)
    /\ res1' = normalizeText(Str(t))
    /\ UNCHANGED lastIndex

CallNormalizeNumberBetween ==
  \E t \in PatternTexts :
    /\ NextCall("normalizeNumber", t)
    /\ res1' = normalizeNumber(Str(t))
    /\ UNCHANGED lastIndex

PatternNext ==
  \/ CallNormalizeHebrewNumber
  \/ CallNormalizeNumberWithPatterns
  \/ CallNormalizeWithPatterns
  \/ CallNormalizeTextBetween
  \/ CallNormalizeNumberBetween

SpecPatterns == PatternInit /\ [][PatternNext]_vars

----------------------------------------------------------------------------
(* Properties of the batch API and of the pool.                            *)

\* out has one record per record of inp, in the same order, each with the
\* keys and values of its input record except text, which is the normalized text
IsNormalizedCopy(out, inp) ==
  /\ Len(out) = Len(inp)
  /\ \A i \in 1..Len(inp) :
       /\ DOMAIN out[i] = DOMAIN inp[i]
       /\ \A k \in DOMAIN inp[i] \ {"text"} : out[i][k] = inp[i][k]
       /\ ~Normalized(inp[i].text).error
       /\ out[i].text = Str(Normalized(inp[i].text).value)

\* C1: a call that returned, on an input whose every text normalizeText
\* accepts, returned the records in input order - output[i] is the normalized
\* form of input[i] - whatever the order in which the workers completed the batches
C1_OutputInInputOrder ==
  \A c \in CallIds :
    (calls[c].pc = "done" /\ AllValid(calls[c].input))
      => IsNormalizedCopy(calls[c].result, calls[c].input)

\* a call went through the pool and one of its batches completed before an earlier one
C1_OutOfOrderCompletion ==
  \E c \in CallIds :
    /\ calls[c].pc = "done"
    /\ calls[c].path = "pool"
    /\ AllValid(calls[c].input)
    /\ calls[c].outOfOrder

\* C2: when a worker failed while it held a batch of a call (the batch task
\* was rejected), the call does not fail and its result holds every input
\* record exactly once, each with its normalized text (input texts that
\* normalizeText accepts)
C2_WorkerFailureLosesNoRecord ==
  \A c \in CallIds :
    (TaskRejected(c) /\ AllValid(calls[c].input))
      => /\ calls[c].pc \in {"awaitBatches", "done"}
         /\ calls[c].pc = "done" => IsNormalizedCopy(calls[c].result, calls[c].input)

\* exactly one worker failed while holding a batch of a call that has returned
C2_ReturnedAfterWorkerFailure ==
  \E c \in CallIds :
    /\ nErrors = 1
    /\ TaskRejected(c)
    /\ calls[c].pc = "done"
    /\ calls[c].path = "fallback"
    /\ Len(calls[c].result) = Len(calls[c].input)

\* one turn of the event loop: a promise continuation or a worker event
EventLoopStep ==
  \/ InitializeDone
  \/ \E c \in CallIds : SubmitBatches(c)
  \/ \E w \in WorkerIds : WorkerMessage(w)
  \/ \E c \in CallIds : BatchesSettled(c)
  \/ \E w \in WorkerIds : WorkerExit(w)
  \/ ShutdownDone

\* C3: after a worker has failed the pool continues - as long as a task
\* waits in the task queue (and the pool is not shut down) a continuation or
\* a worker event is pending, so that the task is dispatched and settled
\* without any further call of the application; no queued task is stranded
C3_QueuedTaskNotStranded ==
  (/\ globalWorkerPool.taskQueue # <<>>
   /\ nErrors > 0
   /\ nShutdowns = 0)
    => ENABLED EventLoopStep

C6_CooperativeTeardown ==
  [][/\ globalWorkerPool.shuttingDown => Len(tasks') = Len(tasks)
     /\ (globalWorkerPool.shuttingDown /\ ~globalWorkerPool'.shuttingDown)
          => \A w \in globalWorkerPool.exitWait :
               currentTask[w] # 0 => tasks[currentTask[w]].state # "pending"]_vars

\* C7: the output of every call that returned has exactly one record per
\* input record, output[i] being input[i] with the text normalized: no
\* __original_index key and no other kind of record
C7_OutputShape ==
  \A c \in CallIds :
    calls[c].pc = "done" => IsNormalizedCopy(calls[c].result, calls[c].input)

----------------------------------------------------------------------------
(* Properties of the text entry points.                                    *)

\* C8: normalizeText and normalizeNumber fail exactly for the arguments that
\* are not a non-empty string - null, undefined, every non-string and also
\* the empty string - and they fail before any lookup or normalization step
C8_InputErrorIffNotNonEmptyString ==
  tpc # "start"
    => /\ res1.error <=> (arg.type # "string" \/ arg.s = <<>>)
       /\ res1.error => res1.steps = <<>>
       /\ ~res1.error => res1.steps # <<>>

\* normalizeNumber was given the empty string and failed
C8_EmptyStringRejected ==
  /\ tpc = "once"
  /\ fn = "normalizeNumber"
  /\ arg = Str(<<>>)
  /\ res1.error

\* C8 as stated: the entry points fail for the non-string arguments, before
\* any step, and for no string argument
C8_InputErrorIffNotString ==
  tpc # "start"
    => /\ res1.error <=> arg.type # "string"
       /\ res1.error => res1.steps = <<>>

\* the words of a text: text.split(' ')
RECURSIVE WordsFrom(_, _, _)
WordsFrom(t, i, word) ==
  IF i > Len(t) THEN <<word>>
  ELSE IF t[i] = " " THEN <<word>> \o WordsFrom(t, i + 1, <<>>)
  ELSE WordsFrom(t, i + 1, Append(word, t[i]))

WordsOf(t) == WordsFrom(t, 1, <<>>)

\* the Hebrew numeral words: every word of a phrase of the numeral lexicon
\* and of the literal phrases of the patterns, alone or behind the conjunction
NumeralPhrases ==
  {getAllPatterns[i][1] : i \in 1..Len(getAllPatterns)}
    \cup {W.complex1345, W.complex3257, W.complex3450, W.complex800k, W.complex1500k,
          W.complex2300k, W.complex11200}

NumeralWords == UNION {SeqToSet(WordsOf(ph)) : ph \in NumeralPhrases}

IsNumeralWord(word) ==
  \/ word \in NumeralWords
  \/ Len(word) > 1 /\ word[1] = W.vav[1] /\ Tail(word) \in NumeralWords

NoNumeralWord(t) == \A i \in 1..Len(WordsOf(t)) : ~IsNumeralWord(WordsOf(t)[i])

IsLookupKey(t) ==
  \/ Lookup(textTests, t) # Undef
  \/ Lookup(sampleLookup, t) # Undef
  \/ Lookup(testCases, t) # Undef

\* C9: normalizeText is idempotent - normalizing its own result gives that
\* result again - and a text without numeral words (numerals, if any, written
\* in digits) is returned unchanged
C9_Idempotent ==
  /\ tpc = "twice" => (~res2.error /\ res2.value = res1.value)
  /\ (tpc # "start" /\ fn = "normalizeText" /\ ~res1.error
        /\ NoNumeralWord(arg.s) /\ ~IsLookupKey(arg.s))
       => res1.value = arg.s

\* C10: a non-empty text in which no word is a Hebrew numeral word, and that
\* is no key of a lookup table, is returned by normalizeText character for
\* character
C10_NoNumeralTextUnchanged ==
  (/\ tpc # "start"
   /\ fn = "normalizeText"
   /\ arg.type = "string"
   /\ arg.s # <<>>
   /\ NoNumeralWord(arg.s)
   /\ ~IsLookupKey(arg.s))
    => (~res1.error /\ res1.value = arg.s)

----------------------------------------------------------------------------
(* Properties of the tokenizer, the detectors, the formatter and the       *)
(* reconstructor.                                                          *)

IsDetectorCall == fn \in {"detectNumberExpressions", "findNumberExpressions"}

\* C11: the expressions a detector returns are in ascending order of start
\* offset and pairwise disjoint - each ends no later than the next starts,
\* so no two share a character offset
C11_DisjointAscending ==
  IsDetectorCall
    => \A i, j \in 1..Len(res1.value) :
         i < j => /\ res1.value[i].startIndex < res1.value[j].startIndex
                  /\ res1.value[i].endIndex <= res1.value[j].startIndex

\* detectNumberExpressions returned two expressions or more after it dropped
\* a candidate that overlapped an accepted one
C11_OverlapResolved ==
  /\ fn = "detectNumberExpressions"
  /\ Len(res1.value) >= 2
  /\ Len(Candidates(tokenize(TextOf(arg)))) > Len(res1.value)

\* C15: tokenize returns no token for an empty or whitespace-only text, and
\* never a token that is empty or holds whitespace
C15_NoEmptyToken ==
  fn = "tokenize"
    => /\ Trim(TextOf(arg)) = <<>> => res1.value = <<>>
       /\ \A k \in 1..Len(res1.value) :
            res1.value[k] # <<>> /\ ~Includes(res1.value[k], <<" ">>)

\* C16: the span of every expression a detector returns lies in the text,
\* begins and ends with a character of a word, and holds exactly the words
\* of the expression
C16_ExactOffsets ==
  IsDetectorCall
    => \A k \in 1..Len(res1.value) :
         LET e == res1.value[k]
             text == TextOf(arg)
             span == Sub(text, e.startIndex + 1, e.endIndex + 1)
         IN /\ e.startIndex < e.endIndex
            /\ e.endIndex <= Len(text)
            /\ Trim(span) = span
            /\ tokenize(span) = tokenize(e.original)

\* the decimal digits of n in groups of three from the right, a separator
\* between two groups
RECURSIVE Grouped(_)
Grouped(n) ==
  IF n < 1000 THEN ToDigits(n)
  ELSE Grouped(n \div 1000)
         \o <<",", DigitChar((n \div 100) % 10), DigitChar((n \div 10) % 10), DigitChar(n % 10)>>

Splice(text, exprs) ==
  Cat([i \in 1..Len(text) |->
        IF \E j \in 1..Len(exprs) : exprs[j].startIndex = i - 1
          THEN exprs[CHOOSE j \in 1..Len(exprs) : exprs[j].startIndex = i - 1].normalized
        ELSE IF \E j \in 1..Len(exprs) : exprs[j].startIndex < i - 1 /\ i - 1 < exprs[j].endIndex
          THEN <<>>
        ELSE <<text[i]>>])

\* C17: reconstruct returns the text with each span replaced by the
\* normalized string of its expression and every other character kept, in
\* whatever order the expressions are passed
C17_OnlySpansReplaced ==
  fn = "reconstruct" => res1.value = Splice(arg.text, arg.exprs)

----------------------------------------------------------------------------
(* Properties of the text entry points: conjunction, fallback, platform.   *)

\* the conjunction vav at the start of a word of t, with a digit right
\* behind it or behind the whitespace that follows it
ConjunctionBeforeDigit(t) ==
  \E i \in 1..Len(t) :
    /\ t[i] = W.vav[1]
    /\ i = 1 \/ IsSpace(t[i - 1])
    /\ LET j == i + 1 + SpaceRun(t, i + 1) IN j <= Len(t) /\ IsDigit(t[j])

\* C13: in what normalizeText returns, a number behind the conjunction vav
\* is written vav, hyphen, digits: the conjunction is never followed by the
\* digits directly or after whitespace (texts that did not have it so already)
C13_ConjunctionHyphenated ==
  (/\ tpc # "start"
   /\ fn = "normalizeText"
   /\ ~res1.error
   /\ ~ConjunctionBeforeDigit(arg.s))
    => ~ConjunctionBeforeDigit(res1.value)

\* C14: a non-empty string holding no numeral word (and no key of a lookup
\* table) is returned unchanged by normalizeNumber and by normalizeText,
\* without an error
C14_IdentityFallback ==
  (/\ tpc # "start"
   /\ arg.type = "string"
   /\ arg.s # <<>>
   /\ NoNumeralWord(arg.s)
   /\ ~IsLookupKey(arg.s))
    => (~res1.error /\ res1.value = arg.s)

\* word number i of ws is a platform head noun and the next word is one of
\* the ten numeral words of the platform rule
PlatformPairAt(ws, i) ==
  /\ i < Len(ws)
  /\ ws[i] \in {W.ratzif, W.beratzif}
  /\ ws[i + 1] \in SeqToSet(platformWords)

\* C19: normalizeText turns the numeral word of every platform pair of the
\* text into digits - no pair is left in the result - and when the pairs
\* hold the only numeral words of the text, nothing else is changed
C19_PlatformNumeralConverted ==
  (/\ tpc # "start"
   /\ fn = "normalizeText"
   /\ arg.type = "string"
   /\ ~IsLookupKey(arg.s)
   /\ \E i \in 1..Len(WordsOf(arg.s)) : PlatformPairAt(WordsOf(arg.s), i))
    => LET ws == WordsOf(arg.s)
           expected == [i \in 1..Len(ws) |->
                         IF i > 1 /\ PlatformPairAt(ws, i - 1) THEN Lookup(numMap, ws[i]) ELSE ws[i]]
       IN /\ ~res1.error
          /\ \A i \in 1..Len(WordsOf(res1.value)) : ~PlatformPairAt(WordsOf(res1.value), i)
          /\ (\A i \in 1..Len(ws) : IsNumeralWord(ws[i]) => (i > 1 /\ PlatformPairAt(ws, i - 1)))
               => res1.value = Join(expected, <<" ">>)

----------------------------------------------------------------------------
(* Properties of the lookups and of the shared regular expressions.        *)

\* C18: the output stored for a known literal input equals what the
\* normalization computes for that input when the lookup is skipped: for the
\* benchmark sentence of normalizeWithPatterns the pattern pipeline, for a key
\* of the lookups of normalizeText the direct normalization and its fallback.
C18_StoredEqualsComputed ==
  /\ fn = "normalizeWithPatterns" /\ arg.text = benchmarkText
       => res1.value = PatternPipeline(arg.text, ApplyCompound(NoLastIndex, arg.text, FALSE, 1))
  /\ fn = "normalizeText" /\ IsLookupKey(arg.text)
       => res1.value = normalizeTextPipeline(arg.text).value

----------------------------------------------------------------------------
(* Properties of the resolver: parseNumberExpression and convertToDigits.  *)

\* the scale class of a token in the lexicon; the plural scale noun of the
\* hundreds only multiplies
ScaleClass(token) ==
  With(getWordValue(token), LAMBDA v :
    IF token = W.meot THEN "hundreds"
    ELSE IF v = Null THEN "none"
    ELSE IF v < 10 THEN "unit"
    ELSE IF v < 20 THEN "teen"
    ELSE IF v < 100 THEN "ten"
    ELSE IF v < 1000 THEN "hundred"
    ELSE IF v < 1000000 THEN "thousand"
    ELSE "million")

StripConjunctions(tokens) == SelectSeq(tokens, LAMBDA token : ~isConjunction(token))

\* the numerals below one thousand, as sequences of scale classes: hundreds
\* (the hundred, or a unit and the scale noun), then tens and units
Below1000 ==
  LET H == {<<"hundred">>, <<"unit", "hundreds">>}
      T == {<<"ten">>, <<"unit">>, <<"ten", "unit">>, <<"teen">>}
  IN H \cup T \cup {h \o t : h \in H, t \in T}

\* the numerals below one million: thousands (the thousand, or a numeral
\* below one thousand and the thousand), then a numeral below one thousand
Numerals ==
  Below1000 \cup {<<"thousand">>} \cup {<<"thousand">> \o b : b \in Below1000}
    \cup {b \o <<"thousand">> : b \in Below1000}
    \cup {b \o <<"thousand">> \o c : b \in Below1000, c \in Below1000}

\* a grammatical numeral: its numeral words form a numeral, and a
\* conjunction stands only between two numeral words
Grammatical(tokens) ==
  /\ tokens # <<>>
  /\ [i \in 1..Len(StripConjunctions(tokens)) |-> ScaleClass(StripConjunctions(tokens)[i])]
       \in Numerals
  /\ \A i \in 1..Len(tokens) :
       isConjunction(tokens[i])
         => i > 1 /\ i < Len(tokens) /\ ~isConjunction(tokens[i - 1]) /\ ~isConjunction(tokens[i + 1])

\* positional-scale grouping: a base value is added to the group, the scale
\* noun of the hundreds multiplies the group, a thousand multiplies the
\* group (or counts once when the group is empty) and flushes it
RECURSIVE ReferenceLoop(_, _, _, _)
ReferenceLoop(ts, i, total, group) ==
  IF i > Len(ts) THEN total + group
  ELSE With(getWordValue(ts[i]), LAMBDA v :
         With(ScaleClass(ts[i]), LAMBDA class :
           IF class = "hundreds" THEN ReferenceLoop(ts, i + 1, total, group * v)
           ELSE IF class = "thousand"
             THEN ReferenceLoop(ts, i + 1, total + (IF group = 0 THEN v ELSE group * v), 0)
           ELSE ReferenceLoop(ts, i + 1, total, group + v)))

ReferenceValue(tokens) == ReferenceLoop(StripConjunctions(tokens), 1, 0, 0)

\* C21: for a grammatical numeral parseNumberExpression returns the value of
\* the positional-scale grouping, in which a scale word multiplies the whole
\* group in front of it and a word of a lower scale is added
C21_PositionalScaleGrouping ==
  fn = "parseNumberExpression" /\ Grammatical(arg.tokens)
    => ~res1.value.hang /\ res1.value.value = ReferenceValue(arg.tokens)

\* the sum of the values of the tokens that have one
RECURSIVE SumOfParts(_)
SumOfParts(tokens) ==
  IF tokens = <<>> THEN 0
  ELSE (IF getWordValue(Head(tokens)) = Null THEN 0 ELSE getWordValue(Head(tokens)))
       + SumOfParts(Tail(tokens))

\* an incoherent token array: a token that is neither a conjunction nor in
\* the lexicon, or two units, or two tens, one behind the other
Incoherent(tokens) ==
  \/ \E i \in 1..Len(tokens) : ~isConjunction(tokens[i]) /\ ScaleClass(tokens[i]) = "none"
  \/ \E i \in 1..(Len(tokens) - 1) :
       /\ ScaleClass(tokens[i]) \in {"unit", "teen", "ten"}
       /\ ScaleClass(tokens[i + 1]) = ScaleClass(tokens[i])

\* the digit string convertToDigits writes for a number
DigitString(n) == IF n >= 1000 THEN formatNumberWithCommas(n) ELSE ToDigits(n)

\* C22: for an incoherent token array parseNumberExpression and
\* convertToDigits return neither 0 nor the sum of the values of the parts
C22_IncoherentNotSummed ==
  arg.k = "tokens" /\ Incoherent(arg.tokens)
    => /\ fn = "parseNumberExpression"
            => ~res1.value.hang /\ res1.value.value \notin {0, SumOfParts(arg.tokens)}
       /\ fn = "convertToDigits"
            => /\ ~res1.value.hang
               /\ res1.value.value \notin {DigitString(0), DigitString(SumOfParts(arg.tokens))}

\* C30: parseNumberExpression returns for every token array
C30_ParseTerminates ==
  fn = "parseNumberExpression" => ~res1.value.hang

----------------------------------------------------------------------------
(* Properties of the overlap resolution of detectNumberExpressions.        *)

SpanLength(c) == c.endIndex - c.startIndex

\* the order of the greedy resolution: ascending start offset and, for the
\* same start offset, descending span length
Before(a, b) ==
  \/ a.startIndex < b.startIndex
  \/ a.startIndex = b.startIndex /\ SpanLength(a) > SpanLength(b)

\* R is what the greedy resolution accepts of the candidates C: a candidate
\* is accepted iff it overlaps no accepted candidate that comes before it
GreedyOver(C, R) ==
  /\ R \subseteq C
  /\ \A c \in C : c \in R <=> ~\E r \in R : Before(r, c) /\ Overlaps(c, r)

\* of two candidates with the same start offset the shorter is not returned
ShorterDropped(C, R) ==
  \A a, b \in C : a.startIndex = b.startIndex /\ SpanLength(a) < SpanLength(b) => a \notin R

\* C23: detectNumberExpressions returns what the greedy resolution accepts
\* of the candidate windows, taken by ascending start offset and, for the
\* same start, by descending span length; of two candidates that start at
\* the same token the shorter is never returned
C23_GreedyLongestFirst ==
  fn = "detectNumberExpressions"
    => /\ GreedyOver(SeqToSet(Candidates(tokenize(TextOf(arg)))), SeqToSet(res1.value))
       /\ ShorterDropped(SeqToSet(Candidates(tokenize(TextOf(arg)))), SeqToSet(res1.value))

\* detectNumberExpressions returned the longer of two candidates that start
\* at the same token
C23_LongerOfTwoKept ==
  /\ fn = "detectNumberExpressions"
  /\ \E a, b \in SeqToSet(Candidates(tokenize(TextOf(arg)))) :
       /\ a.startIndex = b.startIndex
       /\ SpanLength(a) < SpanLength(b)
       /\ b \in SeqToSet(res1.value)

----------------------------------------------------------------------------
(* Properties of the expressions of findNumberExpressions.                 *)

\* the text ends with a conjunction word
EndsWithConjunction(text) ==
  tokenize(text) # <<>> /\ isConjunction(tokenize(text)[Len(tokenize(text))])

\* the text the offsets of findNumberExpressions refer to: the tokens, one
\* blank between two
TokenText(a) == Join(tokenize(TextOf(a)), <<" ">>)

\* C24: no expression findNumberExpressions returns ends with a conjunction:
\* neither its tokens, nor its original text, nor the span of the text from
\* startIndex to endIndex
C24_NoTrailingConjunction ==
  fn = "findNumberExpressions"
    => \A k \in 1..Len(res1.value) :
         /\ ~isConjunction(res1.value[k].tokens[Len(res1.value[k].tokens)])
         /\ ~EndsWithConjunction(res1.value[k].original)
         /\ ~EndsWithConjunction(Sub(TokenText(arg), res1.value[k].startIndex + 1,
                                     res1.value[k].endIndex + 1))

----------------------------------------------------------------------------
(* Properties of the order in which the rules are applied.                 *)

\* what COMPOUND_PATTERNS[j] alone makes of the text
RuleAlone(j, text) == StringReplace(NoLastIndex, j, text).s

\* j is the first of COMPOUND_PATTERNS that rewrites the text
FirstRewriting(j, text) ==
  /\ RuleAlone(j, text) # text
  /\ \A k \in 1..(j - 1) : RuleAlone(k, text) = text

----------------------------------------------------------------------------
(* Properties of the WorkerPool class.                                     *)

\* C26: runTask on a pool that is not initialized throws 'Worker pool not
\* initialized' and changes nothing of the pool: no task is created, queued
\* or posted, and workers, freeWorkers and taskQueue are as before
C26_UninitializedRunTaskThrows ==
  [][(fn' = "runTask" /\ nCoreCalls' = nCoreCalls + 1 /\ ~globalWorkerPool.initialized)
       => /\ res1' = NotInitializedError
          /\ UNCHANGED <<globalWorkerPool, wstate, currentTask, inflight, tasks>>]_vars

\* runTask threw between initialize() and its completion, the new workers
\* sitting in freeWorkers
C26_ThrewWhileInitializing ==
  /\ fn = "runTask"
  /\ res1 = NotInitializedError
  /\ globalWorkerPool.initPending
  /\ globalWorkerPool.freeWorkers # <<>>

\* C27: the pool is work-conserving - whenever a task waits in taskQueue,
\* no worker is in freeWorkers
C27_WorkConserving ==
  globalWorkerPool.taskQueue # <<>> => globalWorkerPool.freeWorkers = <<>>

\* the free list and the current tasks agree
FreeWorkersConsistent ==
  /\ \A w \in SeqToSet(globalWorkerPool.workers) :
       w \in SeqToSet(globalWorkerPool.freeWorkers) <=> currentTask[w] = 0
  /\ Cardinality(SeqToSet(globalWorkerPool.freeWorkers)) = Len(globalWorkerPool.freeWorkers)
  /\ SeqToSet(globalWorkerPool.freeWorkers) \subseteq SeqToSet(globalWorkerPool.workers)

\* worker w is handed a task in this step
Dispatched(w) == currentTask'[w] # 0 /\ currentTask'[w] # currentTask[w]

\* C28: a worker of the pool is in freeWorkers iff its currentTask is null,
\* freeWorkers holds no worker twice and only workers of the pool, and
\* _runTask always finds a worker to pop: the worker it hands a task to was
\* in freeWorkers, or is the one whose message is being handled
C28_FreeIffNoCurrentTask ==
  [][/\ FreeWorkersConsistent'
     /\ \A w \in WorkerIds :
          Dispatched(w)
            => \/ w \in SeqToSet(globalWorkerPool.freeWorkers)
               \/ inflight[w] /\ currentTask[w] # 0]_vars

\* after a task was answered and a worker failed, a worker of the pool runs
\* a task while another one, created for the worker that failed, is free
C28_BusyBesideReplacement ==
  /\ \E w \in SeqToSet(globalWorkerPool.workers) :
       currentTask[w] # 0 /\ tasks[currentTask[w]].worker = w
  /\ \E t \in 1..Len(tasks) : tasks[t].answered
  /\ globalWorkerPool.freeWorkers # <<>>
  /\ nErrors > 0

\* C29: no task is settled more than once, and a result message settles the
\* task whose data was posted to the worker that sends it: a task is resolved
\* iff its own data was answered, and with the reply to its own data
C29_SettledOnceByOwnReply ==
  \A tid \in 1..Len(tasks) :
    /\ tasks[tid].settles <= 1
    /\ tasks[tid].answered <=> tasks[tid].state = "resolved"
    /\ tasks[tid].state = "resolved" => tasks[tid].result = WorkerReply(tasks[tid].data)
    /\ tasks[tid].state = "pending" <=> tasks[tid].settles = 0

\* one task was resolved by a message and another rejected by an error, the
\* two with different data
C29_ResolvedAndRejected ==
  \E t, u \in 1..Len(tasks) :
    /\ tasks[t].state = "resolved"
    /\ tasks[u].state = "rejected"
    /\ tasks[t].data # tasks[u].data

====
